---- MODULE Spec2Model ----
(***************************************************************************)
(* Model of the enrollment pipeline's two core subsystems:                *)
(*   - the identifier allocator (src/eligible_id_assigner.py) working     *)
(*     against the REDCap repository through src/redcap_client.py;        *)
(*   - the notification dispatcher with its rate limiter and circuit      *)
(*     breaker (src/common/email_sender.py).                              *)
(* Text fields are sequences of one-character strings, so that str(),     *)
(* int(), strip() and lower() are computed rather than assumed.           *)
(***************************************************************************)
EXTENDS Integers, Sequences, FiniteSets, TLC

VARIABLES
    repo,       \* repository content: record -> [id, status] (text fields)
    attrs,      \* screening answers of each record (never written by the allocator)
    flagField,  \* whether the project defines the field id_assigned
    proc,       \* state of each allocator process (one process_records run)
    faults,     \* number of injected repository failures so far
    last,       \* per process: the last event of its retry loop
    probe,      \* one observed call of a function checked on its own
    now,        \* the clock read by time.time(), in whole seconds
    cb,         \* one CircuitBreaker driven directly by its three methods
    call,       \* the last call made on cb, with what was observed of it
    breakers,   \* MultiProviderEmailSender.circuit_breakers: name -> breaker
    health,     \* per provider instance: consecutive_failures, last_failure_time
    disp,       \* position and locals of one _send_with_providers call
    hist,       \* per provider instance: its run of failed notifications
    calls,      \* RateLimiter.calls: the stored timestamps, oldest first
    lock,       \* RateLimiter.lock: the thread holding it, 0 when free
    thr,        \* per thread: its position in acquire and its locals
    admitted    \* every timestamp acquire has admitted, in order

allocVars == <<repo, attrs, flagField, proc, faults, last>>

probeVars == <<probe>>

clockVars == <<now>>

breakerVars == <<cb, call>>

dispatchVars == <<breakers, health, disp, hist>>

limiterVars == <<calls, lock, thr, admitted>>

\* the variables process_records never touches
notAllocVars == <<probeVars, clockVars, breakerVars, dispatchVars, limiterVars>>

vars == <<allocVars, notAllocVars>>

\* Values of the variables a specification does not use
ClockParked == now = 0

BreakerParked == cb = <<>> /\ call = <<>>

DispatchParked == breakers = <<>> /\ health = <<>> /\ disp = <<>> /\ hist = <<>>

LimiterParked == calls = <<>> /\ lock = 0 /\ thr = <<>> /\ admitted = <<>>

AllocParked ==
    /\ repo = <<>>
    /\ attrs = <<>>
    /\ flagField = TRUE
    /\ proc = <<>>
    /\ faults = 0
    /\ last = <<>>

-----------------------------------------------------------------------------
(* Bounds of the model *)

NumProcs == 2
NumPending == 2
MaxFaults == 1
MaxRetroactive == 1

-----------------------------------------------------------------------------
(* Text *)

Digits == <<"0", "1", "2", "3", "4", "5", "6", "7", "8", "9">>

IsDigit(c) == \E i \in 1..10 : Digits[i] = c

DigitVal(c) == (CHOOSE i \in 1..10 : Digits[i] = c) - 1

IsSpace(c) == c \in {" ", "\t", "\n"}

RECURSIVE LStrip(_)
LStrip(s) == IF s # <<>> /\ IsSpace(Head(s)) THEN LStrip(Tail(s)) ELSE s

RECURSIVE RStrip(_)
RStrip(s) ==
    IF s # <<>> /\ IsSpace(s[Len(s)]) THEN RStrip(SubSeq(s, 1, Len(s) - 1)) ELSE s

\* str.strip()
Strip(s) == RStrip(LStrip(s))

RECURSIVE DigitsVal(_)
DigitsVal(s) ==
    IF s = <<>> THEN 0
    ELSE 10 * DigitsVal(SubSeq(s, 1, Len(s) - 1)) + DigitVal(s[Len(s)])

\* int(text): surrounding blanks and one sign are accepted, then decimal
\* digits only; anything else raises ValueError (ok = FALSE).
ParseInt(text) ==
    LET s == Strip(text)
        signed == s # <<>> /\ Head(s) \in {"-", "+"}
        body == IF signed THEN Tail(s) ELSE s
        good == body # <<>> /\ \A i \in 1..Len(body) : IsDigit(body[i])
    IN  IF ~good THEN [ok |-> FALSE, val |-> 0]
        ELSE [ok |-> TRUE,
              val |-> IF signed /\ Head(s) = "-" THEN 0 - DigitsVal(body)
                      ELSE DigitsVal(body)]

RECURSIVE IntToStr(_)
\* str(n) of a non-negative integer
IntToStr(n) ==
    IF n < 10 THEN <<Digits[n + 1]>>
    ELSE IntToStr(n \div 10) \o <<Digits[(n % 10) + 1]>>

-----------------------------------------------------------------------------
(* RedcapApiError and the collision classifier (src/redcap_client.py) *)

UpperLetters ==
    <<"A", "B", "C", "D", "E", "F", "G", "H", "I", "J", "K", "L", "M", "N", "O", "P", "Q", "R", "S", "T", "U", "V", "W", "X", "Y", "Z">>

LowerLetters ==
    <<"a", "b", "c", "d", "e", "f", "g", "h", "i", "j", "k", "l", "m", "n", "o", "p", "q", "r", "s", "t", "u", "v", "w", "x", "y", "z">>

\* one character of str.lower()
LowerChar(c) ==
    IF \E i \in 1..26 : UpperLetters[i] = c
    THEN LowerLetters[CHOOSE i \in 1..26 : UpperLetters[i] = c]
    ELSE c

\* str.lower()
Lower(s) == [i \in 1..Len(s) |-> LowerChar(s[i])]

\* needle in hay (substring test)
Contains(hay, needle) ==
    \E i \in 0..(Len(hay) - Len(needle)) : SubSeq(hay, i + 1, i + Len(needle)) = needle

\* status_code=None of RedcapApiError.__init__ (a network error carries none)
NoStatus == -1

\* response_body=None; None and '' are both falsy in the classifier's test
NoBody == <<>>

\* the default detection_strings
DetectionStrings ==
    { <<"u", "n", "i", "q", "u", "e", " ", "c", "o", "n", "s", "t", "r", "a", "i", "n", "t">>,
      <<"d", "u", "p", "l", "i", "c", "a", "t", "e">>,
      <<"a", "l", "r", "e", "a", "d", "y", " ", "e", "x", "i", "s", "t", "s">> }

CollisionStatusCodes == {400, 409, 422}

RedcapApiError(status_code, response_body) ==
    [status_code |-> status_code, response_body |-> response_body]

\* the classifier comparing the body as received, without lower()
is_unique_constraint_violation_cased(e) ==
    /\ e.status_code \in CollisionStatusCodes
    /\ e.response_body # <<>>
    /\ \E d \in DetectionStrings : Contains(e.response_body, Lower(d))

\* RedcapApiError.is_unique_constraint_violation
is_unique_constraint_violation(e) ==
    /\ e.status_code \in CollisionStatusCodes
    /\ e.response_body # <<>>
    /\ \E d \in DetectionStrings : Contains(Lower(e.response_body), Lower(d))

\* Errors the repository and the transport produce in this model.
DuplicateBody == <<"D", "u", "p", "l", "i", "c", "a", "t", "e", " ", "v", "a", "l", "u", "e">>
FieldBody == <<"f", "i", "e", "l", "d", " ", "n", "o", "t", " ", "f", "o", "u", "n", "d">>
DeniedBody == <<"f", "o", "r", "b", "i", "d", "d", "e", "n">>

DuplicateError == RedcapApiError(400, DuplicateBody)
FieldError == RedcapApiError(400, FieldBody)
PermissionError == RedcapApiError(403, DeniedBody)
NetworkError == RedcapApiError(NoStatus, NoBody)

InjectedErrors == {PermissionError, NetworkError}

-----------------------------------------------------------------------------
(* Identifier allocator: configuration and pure parts
   (src/eligible_id_assigner.py, src/eligibility_checker.py) *)

HCMin == 3000
HCMax == 10199
MDDMin == 10200
MDDMax == 20000

\* EligibleIDAssigner.ID_RANGES
ID_RANGES ==
    [healthy_control |-> [min |-> HCMin, max |-> HCMax],
     mdd_participant |-> [min |-> MDDMin, max |-> MDDMax]]

Groups == {"healthy_control", "mdd_participant"}

MAX_RETRIES == 3

RECURSIVE SetMax(_)
SetMax(S) ==
    LET x == CHOOSE y \in S : TRUE
    IN  IF S = {x} THEN x
        ELSE LET m == SetMax(S \ {x}) IN IF x > m THEN x ELSE m

\* The list existing_ids of get_next_dynamic_id, as a set: the integer values
\* of the non-blank identifier fields that lie in the group's range.
ExistingIds(records, group_type) ==
    { ParseInt(Strip(records[r].id)).val :
        r \in { q \in DOMAIN records :
                  LET id_str == Strip(records[q].id)
                      id_value == ParseInt(id_str)
                  IN  /\ id_str # <<>>
                      /\ id_value.ok
                      /\ ID_RANGES[group_type].min <= id_value.val
                      /\ id_value.val <= ID_RANGES[group_type].max } }

\* get_next_dynamic_id mutated: the range limit is not checked
get_next_dynamic_id_nolimit(records, group_type) ==
    LET existing_ids == ExistingIds(records, group_type)
    IN  IF existing_ids # {}
        THEN [raised |-> FALSE, next_id |-> SetMax(existing_ids) + 1]
        ELSE [raised |-> FALSE, next_id |-> ID_RANGES[group_type].min]

\* get_next_dynamic_id mutated: the first value missing from the range is taken
get_next_dynamic_id_gapfill(records, group_type) ==
    LET existing_ids == ExistingIds(records, group_type)
        id_range == ID_RANGES[group_type]
        free == { v \in id_range.min..(id_range.min + Cardinality(existing_ids)) :
                    v \notin existing_ids }
        first == CHOOSE v \in free : \A w \in free : v <= w
    IN  IF first > id_range.max
        THEN [raised |-> TRUE, next_id |-> 0]
        ELSE [raised |-> FALSE, next_id |-> first]

\* EligibleIDAssigner.get_next_dynamic_id on the exported records: the next
\* identifier, or raised = TRUE for the ValueError "ID range exhausted".
get_next_dynamic_id(records, group_type) ==
    LET existing_ids == ExistingIds(records, group_type)
        id_range == ID_RANGES[group_type]
    IN  IF existing_ids # {}
        THEN IF SetMax(existing_ids) + 1 > id_range.max
             THEN [raised |-> TRUE, next_id |-> 0]
             ELSE [raised |-> FALSE, next_id |-> SetMax(existing_ids) + 1]
        ELSE [raised |-> FALSE, next_id |-> id_range.min]

\* determine_group mutated: one group for every score up to 20
determine_group_onegroup(qids_score) ==
    IF qids_score <= 20 THEN "healthy_control" ELSE "ValueError"

\* EligibleIDAssigner.determine_group; "ValueError" for a score of 21 or more
determine_group(qids_score) ==
    IF qids_score <= 10 THEN "healthy_control"
    ELSE IF qids_score <= 20 THEN "mdd_participant"
    ELSE "ValueError"

\* EligibilityChecker.check_eligibility. The answers on age, travel, language,
\* contraindications and email are one flag (criteria); consent and the
\* self-reported QIDS score are evaluated as in the code.
check_eligibility(a) ==
    LET qids_score_str == Strip(a.qids)
        q == ParseInt(qids_score_str)
        review == \/ qids_score_str = <<>>
                  \/ ~q.ok
                  \/ ~(0 <= q.val /\ q.val <= 27)
        reasons == ~a.criteria \/ (q.ok /\ q.val >= 21)
    IN  IF ~a.consent THEN "INELIGIBLE"
        ELSE IF review THEN "REVIEW_REQUIRED"
        ELSE IF reasons THEN "INELIGIBLE"
        ELSE "ELIGIBLE"

-----------------------------------------------------------------------------
(* The repository (REDCap project) behind REDCapClient *)

SeededRecords == {1, 2}
PendingRecords == 3..(2 + NumPending)
AllRecords == SeededRecords \cup PendingRecords
Procs == 1..NumProcs

Empty == <<>>

\* Identifier fields of the seeded records at start: scenarios of prior content.
SeedContents ==
    { <<<<"3", "0", "0", "0">>, <<"3", "0", "0", "5">>>>,
      <<<<"1", "0", "1", "9", "8">>, <<"2", "0", "0", "0", "0">>>>,
      <<<<"N", "/", "A">>, <<" ", "3", "0", "0", "1", " ">>>> }

Profile(qids, criteria) == [consent |-> TRUE, criteria |-> criteria, qids |-> qids]

HCProfile == Profile(<<"5">>, TRUE)
MDDProfile == Profile(<<"1", "5">>, TRUE)

\* Screening answers of the pending records at start, by record position.
PendingPatterns ==
    { [r \in PendingRecords |-> HCProfile],
      [r \in PendingRecords |-> IF r % 2 = 0 THEN HCProfile ELSE MDDProfile],
      [r \in PendingRecords |-> IF r = 3 THEN Profile(<<"2", "5">>, TRUE) ELSE HCProfile],
      [r \in PendingRecords |-> IF r = 3 THEN Profile(Empty, TRUE) ELSE MDDProfile] }

RECURSIVE SortedSeq(_)
SortedSeq(S) ==
    IF S = {} THEN <<>>
    ELSE LET m == CHOOSE x \in S : \A y \in S : x <= y
         IN  <<m>> \o SortedSeq(S \ {m})

\* The server-side filterLogic of process_records
MatchesFilter(rp, at, r) ==
    /\ rp[r].status \in {"", "pending"}
    /\ rp[r].id = Empty
    /\ at[r].consent

\* REDCapClient.export_records as called by process_records: the record ids
\* exported, in record order (all of them when retroactive).
export_batch(rp, at, retroactive) ==
    IF retroactive THEN SortedSeq(DOMAIN rp)
    ELSE SortedSeq({ r \in DOMAIN rp : MatchesFilter(rp, at, r) })

\* The repository's answer to an import mutated: no uniqueness check
RepoImportNoCheck(rp, r, id, status, flag, hasFlagField) ==
    IF flag /\ ~hasFlagField THEN [ok |-> FALSE, repo |-> rp, error |-> FieldError]
    ELSE [ok |-> TRUE,
          repo |-> [rp EXCEPT ![r] = [id |-> IF id = Empty THEN @.id ELSE id,
                                      status |-> status]],
          error |-> NetworkError]

\* The repository's answer to an import of one record (overwriteBehavior
\* overwrite, no blank values sent): an unknown field is refused; an identifier
\* another record holds is refused as a duplicate; otherwise the fields are
\* stored. id = Empty stands for an import that carries no identifier.
RepoImport(rp, r, id, status, flag, hasFlagField) ==
    IF flag /\ ~hasFlagField THEN [ok |-> FALSE, repo |-> rp, error |-> FieldError]
    ELSE IF id # Empty /\ \E o \in DOMAIN rp : o # r /\ rp[o].id = id
    THEN [ok |-> FALSE, repo |-> rp, error |-> DuplicateError]
    ELSE [ok |-> TRUE,
          repo |-> [rp EXCEPT ![r] = [id |-> IF id = Empty THEN @.id ELSE id,
                                      status |-> status]],
          error |-> NetworkError]

-----------------------------------------------------------------------------
(* Identifier allocator: process_records, one action per repository call *)

IdleProc ==
    [pc |-> "idle", retroactive |-> FALSE, batch |-> <<>>, idx |-> 1,
     group_type |-> "", attempt |-> 0, new_id |-> 0,
     processed |-> 0, errors |-> 0, not_eligible |-> 0, review_required |-> 0,
     errors0 |-> 0, contested |-> {}, nwrites |-> 0, failed |-> FALSE]

NoEvent ==
    [kind |-> "none", rec |-> 0, val |-> 0, attempt |-> 0,
     dup |-> FALSE, holders |-> 0, atMax |-> FALSE]

\* What an observer of the repository sees when the event happens: the records
\* holding the text of val, and whether the group's last identifier is held.
Holders(rp, val) == Cardinality({ r \in DOMAIN rp : rp[r].id = IntToStr(val) })

MaxHeld(rp, group_type) ==
    \E r \in DOMAIN rp : rp[r].id = IntToStr(ID_RANGES[group_type].max)

Event(kind, st, val, dup) ==
    [kind |-> kind, rec |-> st.batch[st.idx], val |-> val, attempt |-> st.attempt,
     dup |-> dup, holders |-> Holders(repo, val), atMax |-> MaxHeld(repo, st.group_type)]

SeedAttrs(id) == [consent |-> id # Empty, criteria |-> TRUE, qids |-> <<"5">>]

SeedStatus(id) == IF id = Empty THEN "" ELSE "eligible_id_assigned"

InitAlloc ==
    /\ \E seed \in SeedContents :
         \E prof \in PendingPatterns :
           /\ repo = [r \in AllRecords |->
                        IF r \in SeededRecords
                        THEN [id |-> seed[r], status |-> SeedStatus(seed[r])]
                        ELSE [id |-> Empty, status |-> ""]]
           /\ attrs = [r \in AllRecords |->
                         IF r \in SeededRecords THEN SeedAttrs(seed[r]) ELSE prof[r]]
    /\ flagField \in BOOLEAN
    /\ proc = [p \in Procs |-> IdleProc]
    /\ faults = 0
    /\ last = [p \in Procs |-> NoEvent]
    /\ probe = [called |-> FALSE, group_type |-> "", raised |-> FALSE, next_id |-> 0]
    /\ ClockParked /\ BreakerParked /\ DispatchParked /\ LimiterParked

\* AfterLoop mutated: a record that used up its attempts is not counted
AfterLoopSilent(st, assignment_successful) ==
    [st EXCEPT !.idx = @ + 1, !.pc = "next"]

\* The code after the retry loop (lines 265-267) and the step to the next record
AfterLoop(st, assignment_successful) ==
    [st EXCEPT !.errors = IF ~assignment_successful /\ st.attempt = MAX_RETRIES - 1
                          THEN @ + 1 ELSE @,
               !.idx = @ + 1,
               !.pc = "next"]

\* The success path of one attempt (lines 235-245)
Assigned(st) == AfterLoop([st EXCEPT !.processed = @ + 1], TRUE)

\* OnApiError mutated: a collision is handled as a fatal error
OnApiErrorFatal(st, e) ==
    AfterLoop([st EXCEPT !.errors = @ + 1], FALSE)

\* The handler "except RedcapApiError" of the retry loop (lines 247-258)
OnApiError(st, e) ==
    IF is_unique_constraint_violation(e)
    THEN IF st.attempt < MAX_RETRIES - 1
         THEN [st EXCEPT !.attempt = @ + 1, !.pc = "read_ids",
                         !.contested = @ \cup {st.new_id}]
         ELSE AfterLoop([st EXCEPT !.contested = @ \cup {st.new_id}], FALSE)
    ELSE AfterLoop([st EXCEPT !.errors = @ + 1], FALSE)

ErrorKind(st, e) ==
    IF is_unique_constraint_violation(e)
    THEN IF st.attempt < MAX_RETRIES - 1 THEN "collision" ELSE "retries_exhausted"
    ELSE "fatal"

\* process_records: the batch fetch (lines 122-137)
FetchBatch(p) ==
    /\ proc[p].pc = "idle"
    /\ \E retroactive \in BOOLEAN :
         /\ retroactive =>
              Cardinality({q \in Procs : proc[q].retroactive}) < MaxRetroactive
         /\ proc' = [proc EXCEPT ![p] = [@ EXCEPT !.retroactive = retroactive,
                                               !.batch = export_batch(repo, attrs, retroactive),
                                               !.idx = 1,
                                               !.pc = "next"]]
    /\ UNCHANGED <<repo, attrs, flagField, faults, last, notAllocVars>>

\* the batch fetch fails: process_records logs and returns 0
FetchFails(p) ==
    /\ proc[p].pc = "idle"
    /\ faults < MaxFaults
    /\ faults' = faults + 1
    /\ proc' = [proc EXCEPT ![p].pc = "done", ![p].failed = TRUE]
    /\ UNCHANGED <<repo, attrs, flagField, last, notAllocVars>>

\* process_records: the head of the loop body for one record (lines 150-209)
StepRecord(p) ==
    LET st == proc[p]
        a == attrs[st.batch[st.idx]]
        q == ParseInt(Strip(a.qids))
        g == determine_group(q.val)
    IN  /\ st.pc = "next"
        /\ st.idx <= Len(st.batch)
        /\ proc' = [proc EXCEPT ![p] =
             IF check_eligibility(a) # "ELIGIBLE" THEN [st EXCEPT !.pc = "write_status"]
             ELSE IF Strip(a.qids) = <<>> THEN [st EXCEPT !.idx = @ + 1]
             ELSE IF ~q.ok THEN [st EXCEPT !.errors = @ + 1, !.idx = @ + 1]
             ELSE IF g = "ValueError" THEN [st EXCEPT !.not_eligible = @ + 1, !.idx = @ + 1]
             ELSE [st EXCEPT !.group_type = g, !.attempt = 0, !.pc = "read_ids",
                             !.errors0 = st.errors, !.contested = {}, !.nwrites = 0]]
        /\ last' = [last EXCEPT ![p] = NoEvent]
        /\ UNCHANGED <<repo, attrs, flagField, faults, notAllocVars>>

StatusOf(status) ==
    IF status = "INELIGIBLE" THEN "ineligible"
    ELSE IF status = "REVIEW_REQUIRED" THEN "manual_review_required"
    ELSE "pending"

\* process_records: the status update of a record that is not eligible (lines 156-182)
WriteStatus(p) ==
    LET st == proc[p]
        r == st.batch[st.idx]
        status == check_eligibility(attrs[r])
        res == RepoImport(repo, r, Empty, StatusOf(status), FALSE, flagField)
    IN  /\ st.pc = "write_status"
        /\ \/ /\ repo' = res.repo
              /\ proc' = [proc EXCEPT ![p] =
                   [st EXCEPT !.not_eligible = IF status = "INELIGIBLE" THEN @ + 1 ELSE @,
                              !.review_required = IF status = "INELIGIBLE" THEN @ ELSE @ + 1,
                              !.idx = @ + 1, !.pc = "next"]]
              /\ UNCHANGED faults
           \/ /\ faults < MaxFaults
              /\ faults' = faults + 1
              /\ proc' = [proc EXCEPT ![p] =
                   [st EXCEPT !.errors = @ + 1, !.idx = @ + 1, !.pc = "next"]]
              /\ UNCHANGED repo
        /\ UNCHANGED <<attrs, flagField, last, notAllocVars>>

\* one attempt, first call: get_next_dynamic_id (line 214)
ReadIds(p) ==
    LET st == proc[p]
        res == get_next_dynamic_id(repo, st.group_type)
    IN  /\ st.pc = "read_ids"
        /\ \/ /\ proc' = [proc EXCEPT ![p] =
                   IF res.raised THEN AfterLoop([st EXCEPT !.errors = @ + 1], FALSE)
                   ELSE [st EXCEPT !.new_id = res.next_id, !.pc = "write_flag"]]
              /\ last' = [last EXCEPT ![p] =
                   IF res.raised THEN Event("exhausted", st, 0, FALSE)
                   ELSE Event("read", st, res.next_id, FALSE)]
              /\ UNCHANGED faults
           \/ /\ faults < MaxFaults
              /\ faults' = faults + 1
              /\ \E e \in InjectedErrors :
                   /\ proc' = [proc EXCEPT ![p] = OnApiError([st EXCEPT !.failed = TRUE], e)]
                   /\ last' = [last EXCEPT ![p] = Event(ErrorKind(st, e), st, 0, FALSE)]
        /\ UNCHANGED <<repo, attrs, flagField, notAllocVars>>

\* an import of the identifier is issued (counted per record)
Issue(st) == [st EXCEPT !.nwrites = @ + 1]

\* one attempt, second call: the import with the id_assigned flag (lines 217-229)
WriteWithFlag(p) ==
    LET st == proc[p]
        r == st.batch[st.idx]
        res == RepoImport(repo, r, IntToStr(st.new_id), "eligible_id_assigned", TRUE, flagField)
    IN  /\ st.pc = "write_flag"
        /\ \/ /\ res.ok
              /\ repo' = res.repo
              /\ proc' = [proc EXCEPT ![p] = Assigned(Issue(st))]
              /\ last' = [last EXCEPT ![p] = Event("assigned", st, st.new_id, FALSE)]
              /\ UNCHANGED faults
           \/ /\ ~res.ok
              /\ proc' = [proc EXCEPT ![p] = [Issue(st) EXCEPT !.pc = "write_noflag"]]
              /\ UNCHANGED <<repo, faults, last>>
           \/ /\ faults < MaxFaults
              /\ faults' = faults + 1
              /\ proc' = [proc EXCEPT ![p] = [Issue(st) EXCEPT !.pc = "write_noflag"]]
              /\ UNCHANGED <<repo, last>>
        /\ UNCHANGED <<attrs, flagField, notAllocVars>>

\* one attempt, third call: the import without the flag, made after any
\* RedcapApiError of the first import (lines 230-233), and the handlers
WriteNoFlag(p) ==
    LET st == proc[p]
        r == st.batch[st.idx]
        res == RepoImport(repo, r, IntToStr(st.new_id), "eligible_id_assigned", FALSE, flagField)
    IN  /\ st.pc = "write_noflag"
        /\ \/ /\ res.ok
              /\ repo' = res.repo
              /\ proc' = [proc EXCEPT ![p] = Assigned(Issue(st))]
              /\ last' = [last EXCEPT ![p] = Event("assigned", st, st.new_id, FALSE)]
              /\ UNCHANGED faults
           \/ /\ ~res.ok
              /\ proc' = [proc EXCEPT ![p] = OnApiError(Issue(st), res.error)]
              /\ last' = [last EXCEPT ![p] = Event(ErrorKind(st, res.error), st, st.new_id,
                                                    res.error = DuplicateError)]
              /\ UNCHANGED <<repo, faults>>
           \/ /\ faults < MaxFaults
              /\ faults' = faults + 1
              /\ \E e \in InjectedErrors :
                   /\ proc' = [proc EXCEPT ![p] =
                                   OnApiError([Issue(st) EXCEPT !.failed = TRUE], e)]
                   /\ last' = [last EXCEPT ![p] = Event(ErrorKind(st, e), st, st.new_id, FALSE)]
              /\ UNCHANGED repo
        /\ UNCHANGED <<attrs, flagField, notAllocVars>>

\* process_records: the summary and the return (lines 269-282)
Summary(p) ==
    /\ proc[p].pc = "next"
    /\ proc[p].idx > Len(proc[p].batch)
    /\ proc' = [proc EXCEPT ![p].pc = "done"]
    /\ UNCHANGED <<repo, attrs, flagField, faults, last, notAllocVars>>

NextAlloc ==
    \E p \in Procs :
        \/ FetchBatch(p)
        \/ FetchFails(p)
        \/ StepRecord(p)
        \/ WriteStatus(p)
        \/ ReadIds(p)
        \/ WriteWithFlag(p)
        \/ WriteNoFlag(p)
        \/ Summary(p)

Spec == InitAlloc /\ [][NextAlloc]_vars

-----------------------------------------------------------------------------
(* Properties of the allocator *)

\* The identifier a record holds, as a number (0: none, or not a number)
AssignedValue(r) ==
    LET v == ParseInt(Strip(repo[r].id))
    IN  IF Strip(repo[r].id) # <<>> /\ v.ok THEN v.val ELSE 0

InRange(v, group_type) ==
    ID_RANGES[group_type].min <= v /\ v <= ID_RANGES[group_type].max

GroupOf(r) == determine_group(ParseInt(Strip(attrs[r].qids)).val)

C2_WithinRange ==
    /\ \A p \in Procs :
         /\ proc[p].pc \in {"write_flag", "write_noflag"}
              => InRange(proc[p].new_id, proc[p].group_type)
         /\ last[p].kind \in {"read", "assigned", "collision", "retries_exhausted"}
              /\ last[p].val # 0
              => InRange(last[p].val, GroupOf(last[p].rec))
    /\ \A r \in PendingRecords :
         repo[r].id # Empty => InRange(AssignedValue(r), GroupOf(r))

\* A process has just assigned the last identifier of the healthy-control range.
C2_Witness ==
    \E p \in Procs :
        /\ last[p].kind = "assigned"
        /\ last[p].val = HCMax
        /\ AssignedValue(last[p].rec) = HCMax

\* C3 (as claimed): an identifier a record holds is never changed by a later
\* write of the allocator.
C3_NeverReassigned ==
    [][\A r \in AllRecords : repo[r].id # Empty => repo'[r].id = repo[r].id]_vars

\* C4: a write refused because another record holds the candidate is handled
\* as a collision: the process counts no error, reads the repository again and
\* takes a later value (the next one when the contested value is still the
\* highest), and the contested value stays with exactly one record.
C4_CollisionRetried ==
    \A p \in Procs :
        LET e == last[p]
            st == proc[p]
        IN  /\ (e.dup /\ e.attempt < MAX_RETRIES - 1) =>
                 /\ e.kind = "collision"
                 /\ e.holders = 1
                 /\ st.pc = "read_ids"
                 /\ st.attempt = e.attempt + 1
                 /\ st.errors = st.errors0
                 /\ e.val \in st.contested
            /\ (e.kind \in {"read", "assigned"} /\ st.contested # {}) =>
                 /\ \A c \in st.contested : e.val > c
                 /\ st.errors = st.errors0
                 /\ (SetMax(ExistingIds(repo, st.group_type) \cup st.contested)
                       = SetMax(st.contested) + 1
                     /\ e.kind = "assigned")
                      => e.val = SetMax(st.contested) + 1
            /\ (e.kind = "assigned" /\ st.contested # {}) =>
                 /\ AssignedValue(e.rec) \notin st.contested
                 /\ st.processed > 0

\* Two processes computed 3006 for different records; the loser has ended by
\* assigning 3007, with no error counted.
C4_Witness ==
    \E p, q \in Procs :
        /\ p # q
        /\ last[q].kind = "assigned" /\ last[q].val = 3006
        /\ last[p].kind = "assigned" /\ last[p].val = 3007
        /\ proc[p].contested = {3006}
        /\ proc[p].errors = 0
        /\ AssignedValue(last[q].rec) = 3006
        /\ AssignedValue(last[p].rec) = 3007

\* C6: when the last identifier of the group's range is already held, the
\* allocation for a record ends with the range-exhaustion error: no import is
\* issued for it, the error is counted and the process moves to the next
\* record without another attempt.
C6_RangeExhausted ==
    \A p \in Procs :
        LET e == last[p]
            st == proc[p]
        IN  /\ (e.kind \in {"read", "exhausted"} /\ e.atMax) => e.kind = "exhausted"
            /\ e.kind = "exhausted" =>
                 /\ st.pc \in {"next", "done"}
                 /\ st.batch[st.idx - 1] = e.rec
                 /\ st.errors > st.errors0
                 /\ e.attempt = 0 => st.nwrites = 0

\* A process found the range exhausted on its first read for a record.
C6_Witness ==
    \E p \in Procs :
        /\ last[p].kind = "exhausted"
        /\ last[p].attempt = 0
        /\ last[p].atMax
        /\ proc[p].nwrites = 0
        /\ repo[last[p].rec].id = Empty

-----------------------------------------------------------------------------
(* get_next_dynamic_id as a function of the repository content *)

NumProbeRecords == 3

ProbeRecords == 1..NumProbeRecords

\* Identifier fields a repository may hold, each with the integer it denotes
\* (isInt = FALSE: blank or not an integer).
IdTable ==
    { [text |-> Empty, isInt |-> FALSE, val |-> 0],
      [text |-> <<"N", "/", "A">>, isInt |-> FALSE, val |-> 0],
      [text |-> <<"3", "0", "0", "6", ".", "0">>, isInt |-> FALSE, val |-> 0],
      [text |-> <<"2", "9", "9", "9">>, isInt |-> TRUE, val |-> 2999],
      [text |-> <<"3", "0", "0", "0">>, isInt |-> TRUE, val |-> 3000],
      [text |-> <<"3", "0", "0", "1">>, isInt |-> TRUE, val |-> 3001],
      [text |-> <<" ", "3", "0", "0", "5", " ">>, isInt |-> TRUE, val |-> 3005],
      [text |-> <<"3", "0", "0", "5">>, isInt |-> TRUE, val |-> 3005],
      [text |-> <<"1", "0", "1", "9", "9">>, isInt |-> TRUE, val |-> 10199],
      [text |-> <<"1", "0", "2", "0", "0">>, isInt |-> TRUE, val |-> 10200],
      [text |-> <<"2", "0", "0", "0", "0">>, isInt |-> TRUE, val |-> 20000],
      [text |-> <<"2", "0", "0", "0", "1">>, isInt |-> TRUE, val |-> 20001] }

NoProbe == [called |-> FALSE, group_type |-> "", raised |-> FALSE, next_id |-> 0]

InitNextId ==
    /\ \E content \in [ProbeRecords -> IdTable] :
         repo = [r \in ProbeRecords |-> [id |-> content[r].text, status |-> ""]]
    /\ probe = NoProbe
    /\ attrs = <<>>
    /\ flagField = TRUE
    /\ proc = <<>>
    /\ faults = 0
    /\ last = <<>>
    /\ ClockParked /\ BreakerParked /\ DispatchParked /\ LimiterParked

\* one call of get_next_dynamic_id(group_type) that reaches the repository
CallGetNextDynamicId(group_type) ==
    LET res == get_next_dynamic_id(repo, group_type)
    IN  /\ ~probe.called
        /\ probe' = [called |-> TRUE, group_type |-> group_type,
                     raised |-> res.raised, next_id |-> res.next_id]
        /\ UNCHANGED <<allocVars, clockVars, breakerVars, dispatchVars, limiterVars>>

NextNextId == \E group_type \in Groups : CallGetNextDynamicId(group_type)

SpecNextId == InitNextId /\ [][NextNextId]_vars

\* The integers the repository's identifier fields denote (by IdTable) that
\* lie in the group's range.
DenotedInRange(group_type) ==
    { t.val : t \in { u \in IdTable :
                        /\ u.isInt
                        /\ InRange(u.val, group_type)
                        /\ \E r \in DOMAIN repo : repo[r].id = u.text } }

\* C5: get_next_dynamic_id returns the highest value held in the group's range
\* plus one, or the range's minimum when no value lies in the range; values
\* outside the range and non-integers are ignored and gaps are not refilled.
\* (When that highest value is the range's maximum nothing is returned: the
\* call raises.)
C5_NextIsMaxPlusOne ==
    probe.called =>
        LET held == DenotedInRange(probe.group_type)
            id_range == ID_RANGES[probe.group_type]
        IN  /\ held = {} => (~probe.raised /\ probe.next_id = id_range.min)
            /\ \A top \in held :
                 (\A v \in held : v <= top) =>
                    IF top = id_range.max THEN probe.raised
                    ELSE ~probe.raised /\ probe.next_id = top + 1

\* With 3000, 3001 and 3005 held, the call for healthy controls returned 3006.
C5_Witness ==
    /\ probe.called
    /\ probe.group_type = "healthy_control"
    /\ { repo[r].id : r \in DOMAIN repo } =
         { <<"3", "0", "0", "0">>, <<"3", "0", "0", "1">>, <<"3", "0", "0", "5">> }
    /\ ~probe.raised
    /\ probe.next_id = 3006

-----------------------------------------------------------------------------
(* The clock.  time.time() is read in whole seconds at the instants below; *)
(* they are spaced so that a recovery timeout and a provider cooldown are  *)
(* each met exactly and exceeded by one second.                            *)

Instants == {1, 31, 61, 62, 301, 302, 362}

FirstInstant == CHOOSE t \in Instants : \A u \in Instants : t <= u

\* time passes: the clock moves to a later instant
Tick ==
    /\ now > 0
    /\ \E t \in Instants : t > now /\ now' = t
    /\ UNCHANGED <<allocVars, probeVars, breakerVars, dispatchVars, limiterVars>>

-----------------------------------------------------------------------------
(* CircuitBreaker (src/common/email_sender.py) *)

failure_threshold == 5
recovery_timeout == 60
success_threshold == 2

\* last_failure_time = None; the code tests the field for truth, which None
\* and 0 both fail
NoTime == 0

\* CircuitBreaker.__init__
NewBreaker ==
    [failure_count |-> 0, success_count |-> 0,
     last_failure_time |-> NoTime, state |-> "closed"]

record_success(b) ==
    LET b1 == [b EXCEPT !.failure_count = 0, !.success_count = @ + 1]
    IN  IF b1.state = "half_open" /\ b1.success_count >= success_threshold
        THEN [b1 EXCEPT !.state = "closed"]
        ELSE b1

\* record_failure that counts the failure and leaves the state as it is
record_failure_noopen(b, t) ==
    [b EXCEPT !.failure_count = @ + 1, !.success_count = 0,
              !.last_failure_time = t]

record_failure(b, t) ==
    LET b1 == [b EXCEPT !.failure_count = @ + 1, !.success_count = 0,
                        !.last_failure_time = t]
    IN  IF b1.failure_count >= failure_threshold
        THEN [b1 EXCEPT !.state = "open"]
        ELSE b1

\* can_attempt with the recovery test met one second early
can_attempt_early(b, t) ==
    IF b.state = "open" /\ b.last_failure_time # NoTime
       /\ (t - b.last_failure_time) >= recovery_timeout
    THEN [breaker |-> [b EXCEPT !.state = "half_open"], result |-> TRUE]
    ELSE [breaker |-> b, result |-> b.state # "open"]

\* can_attempt at clock reading t: the breaker afterwards and the value returned
can_attempt(b, t) ==
    IF b.state = "closed"
    THEN [breaker |-> b, result |-> TRUE]
    ELSE IF b.state = "open"
         THEN IF b.last_failure_time # NoTime
                 /\ (t - b.last_failure_time) > recovery_timeout
              THEN [breaker |-> [b EXCEPT !.state = "half_open"], result |-> TRUE]
              ELSE [breaker |-> b, result |-> FALSE]
         ELSE [breaker |-> b, result |-> TRUE]

-----------------------------------------------------------------------------
(* One circuit breaker under arbitrary sequences of calls *)

\* bounds on the two counters, on the can_attempt calls between failures and
\* on the threads that are between their can_attempt and their record_ call
MaxCount == 6
MaxAsked == 3
MaxInFlight == 2

\* what is recorded about the calls: the last method called and its result,
\* the clock at that call, the record_failure calls since the last
\* record_success (failures), the clock at the last of them (failed_at) and
\* the can_attempt calls since then (asked).  The breaker is called as
\* _send_with_providers calls it (lines 713-775), from one thread per
\* notification: a thread that got True from can_attempt sends and then calls
\* record_success or record_failure once; inflight counts the threads that
\* are between the two calls; streak counts the record_success calls made
\* since the breaker last became half-open with no record_failure among them.
NoCall ==
    [op |-> "none", result |-> TRUE, at |-> NoTime,
     failures |-> 0, failed_at |-> NoTime, asked |-> 0, inflight |-> 0,
     streak |-> 0]

InitBreaker ==
    /\ now = FirstInstant
    /\ cb = NewBreaker
    /\ call = NoCall
    /\ AllocParked /\ probe = <<>> /\ DispatchParked /\ LimiterParked

CallRecordSuccess ==
    /\ cb.success_count < MaxCount
    /\ call.inflight > 0
    /\ cb' = record_success(cb)
    /\ call' = [call EXCEPT !.op = "record_success", !.at = now, !.failures = 0,
                            !.inflight = @ - 1,
                            !.streak = IF cb.state = "half_open" THEN @ + 1 ELSE 0]
    /\ UNCHANGED <<allocVars, probeVars, clockVars, dispatchVars, limiterVars>>

CallRecordFailure ==
    /\ call.failures < MaxCount
    /\ call.inflight > 0
    /\ cb' = record_failure(cb, now)
    /\ call' = [call EXCEPT !.op = "record_failure", !.at = now,
                            !.failures = @ + 1, !.failed_at = now, !.asked = 0,
                            !.inflight = @ - 1, !.streak = 0]
    /\ UNCHANGED <<allocVars, probeVars, clockVars, dispatchVars, limiterVars>>

CallCanAttempt ==
    LET res == can_attempt(cb, now)
    IN  /\ call.asked < MaxAsked
        /\ res.result => call.inflight < MaxInFlight
        /\ cb' = res.breaker
        /\ call' = [call EXCEPT !.op = "can_attempt", !.at = now,
                                !.result = res.result, !.asked = @ + 1,
                                !.inflight = IF res.result THEN @ + 1 ELSE @,
                                !.streak = IF res.breaker.state # cb.state THEN 0 ELSE @]
        /\ UNCHANGED <<allocVars, probeVars, clockVars, dispatchVars, limiterVars>>

NextBreaker ==
    \/ CallRecordSuccess
    \/ CallRecordFailure
    \/ CallCanAttempt
    \/ Tick

SpecBreaker == InitBreaker /\ [][NextBreaker]_vars

\* C8: once failure_threshold record_failure calls have been made with no
\* record_success between them, a call of can_attempt returns false exactly
\* when no more than recovery_timeout seconds have passed since the last
\* record_failure, however many can_attempt calls came before it.
C8_RefusesUntilTimeout ==
    (call.op = "can_attempt" /\ call.failures >= failure_threshold)
        => (call.result = FALSE <=> call.at - call.failed_at <= recovery_timeout)

\* the third can_attempt in a row is refused exactly recovery_timeout seconds
\* after the fifth failure
C8_Witness ==
    /\ call.op = "can_attempt"
    /\ call.failures >= failure_threshold
    /\ call.asked = MaxAsked
    /\ call.at - call.failed_at = recovery_timeout
    /\ call.result = FALSE

-----------------------------------------------------------------------------
(* The providers (src/common/email_sender.py) *)

\* the provider list create_providers builds when SendGrid and the Stanford
\* SMTP server are both configured, by get_provider_name()
Providers == <<"sendgrid", "stanford_smtp">>

Instances == 1..Len(Providers)

ProviderNames == { Providers[i] : i \in Instances }

\* health thresholds of the providers
SendGridUnhealthyAfter == 5
SendGridCooldown == 300
SmtpUnhealthyAfter == 3

NewHealth == [consecutive_failures |-> 0, last_failure_time |-> NoTime]

\* what provider.send_email may return: success, status_code and retry of the
\* result dictionary, the last two being NoStatus and FALSE where the key is
\* absent
Result(success, status_code, retry) ==
    [success |-> success, status_code |-> status_code, retry |-> retry]

SendGridResults ==
    { Result(TRUE, 202, FALSE),
      Result(FALSE, 503, TRUE),
      Result(FALSE, 403, FALSE) }

SmtpResults ==
    { Result(TRUE, NoStatus, FALSE),
      Result(FALSE, NoStatus, FALSE) }

Results(name) == IF name = "sendgrid" THEN SendGridResults ELSE SmtpResults

\* the bookkeeping send_email does on the provider before it returns result.
\* All three provider classes catch every exception inside send_email, so a
\* call always returns a result; the rate limiter SendGridProvider consults
\* first (lines 179-183) delays a call and never fails it, and is modelled on
\* its own further down.
send_email(name, h, result, t) ==
    IF result.success
    THEN [h EXCEPT !.consecutive_failures = 0]
    ELSE IF name = "sendgrid"
         THEN [h EXCEPT !.consecutive_failures = @ + 1, !.last_failure_time = t]
         ELSE [h EXCEPT !.consecutive_failures = @ + 1]

\* is_healthy at clock reading t: the provider afterwards and the value returned
is_healthy(name, h, t) ==
    IF name = "sendgrid"
    THEN IF h.consecutive_failures >= SendGridUnhealthyAfter
         THEN IF h.last_failure_time # NoTime
                 /\ (t - h.last_failure_time) > SendGridCooldown
              THEN [health |-> [h EXCEPT !.consecutive_failures = 0], result |-> TRUE]
              ELSE [health |-> h, result |-> FALSE]
         ELSE [health |-> h, result |-> TRUE]
    ELSE [health |-> h, result |-> h.consecutive_failures < SmtpUnhealthyAfter]

-----------------------------------------------------------------------------
(* MultiProviderEmailSender._send_with_providers *)

max_retries == 3

MaxNotifications == 7

TransientStatusCodes == {429, 500, 502, 503, 504}

StanfordSuffix == <<"@", "s", "t", "a", "n", "f", "o", "r", "d", ".", "e", "d", "u">>

\* the recipients notified
Recipients ==
    { <<"x", "@", "y", ".", "e", "d", "u">>,
      <<"a", "@", "S", "t", "a", "n", "f", "o", "r", "d", ".", "E", "D", "U">> }

EndsWith(s, suffix) ==
    /\ Len(s) >= Len(suffix)
    /\ SubSeq(s, Len(s) - Len(suffix) + 1, Len(s)) = suffix

\* the sort key of a provider
Priority(name, is_stanford_recipient) ==
    IF name = "sendgrid" THEN 0
    ELSE IF is_stanford_recipient
         THEN (IF name = "stanford_smtp" THEN 1 ELSE 2)
         ELSE (IF name = "stanford_smtp" THEN 2 ELSE 1)

\* sorted(providers, key=...) for a list of provider names: the positions of
\* the list by priority, those of equal priority in list order
sorted_providers(providers, to_email) ==
    LET is_stanford_recipient == EndsWith(Lower(to_email), StanfordSuffix)
        All == [i \in DOMAIN providers |-> i]
        WithPriority(k) ==
            SelectSeq(All, LAMBDA i : Priority(providers[i], is_stanford_recipient) = k)
    IN  WithPriority(0) \o WithPriority(1) \o WithPriority(2)

\* the order of the dispatcher's two instances
provider_order(to_email) == sorted_providers(Providers, to_email)

\* str(None), as the f-string of line 780 renders an unset last_error
NoneText == "None"

\* result['error'] and result.get('guidance') of a failed send_email call
error_of(name, result) ==
    IF name = "sendgrid"
    THEN (IF result.status_code = 503 THEN "Service unavailable"
          ELSE IF result.status_code = 403 THEN "Forbidden - check API key permissions"
          ELSE "Unknown error")
    ELSE "SMTP error"

guidance_of(name, result) ==
    IF name = "sendgrid" /\ result.status_code = 403
    THEN "SendGrid 403 Error"
    ELSE NoneText

\* what a call returns: the dictionary of _send_with_providers (success,
\* provider, error, guidance; "" for an absent key), whether building it
\* raised, and value, the boolean send_email made of it
NoResult ==
    [returned |-> FALSE, raised |-> FALSE, success |-> FALSE, provider |-> "",
     error |-> "", guidance |-> "", value |-> FALSE]

\* EmailMetrics.record_send: the counters the call increments, one of
\* sent_count and failed_count and one entry of provider_stats.  The counters
\* only accumulate and are read by get_summary alone, so the model keeps the
\* increments of the current call and not the running totals.
NoCount == [total |-> "", provider |-> "", stat |-> ""]

record_send(res) ==
    [total |-> IF res.success THEN "sent_count" ELSE "failed_count",
     provider |-> IF res.provider = "" THEN "unknown" ELSE res.provider,
     stat |-> IF res.success THEN "success" ELSE "failure"]

\* pc: idle, check (about to consult the provider at position pi of order),
\* send (about to call its send_email for attempt number attempt + 1), sleep
\* (in the backoff before the next attempt), done (returned).  sent lists the
\* send_email calls made, skipped the instances passed over; counted is
\* what the call added to self.metrics.
IdleDisp ==
    [pc |-> "idle", n |-> 0, order |-> <<>>, pi |-> 0, attempt |-> 0,
     attempts |-> <<>>, last_error |-> NoneText, sent |-> <<>>, skipped |-> {},
     result |-> NoResult, counted |-> NoCount, recorded |-> <<>>,
     consulted |-> <<>>]

\* per instance: the notifications in a row in which it was tried and did not
\* succeed, the clock at the last of them and its number
NoHist == [failures |-> 0, failed_at |-> NoTime, failed_in |-> 0]

InitDispatch ==
    /\ now = FirstInstant
    /\ breakers = [name \in ProviderNames |-> NewBreaker]
    /\ health = [i \in Instances |-> NewHealth]
    /\ disp = IdleDisp
    /\ hist = [i \in Instances |-> NoHist]
    /\ AllocParked /\ probe = <<>> /\ BreakerParked /\ LimiterParked

\* the dictionary of lines 778-783 with attempts[-1] read whatever the trail
failure_return_unguarded(trail, last_error) ==
    [NoResult EXCEPT !.returned = trail # <<>>, !.raised = trail = <<>>,
                     !.error = last_error,
                     !.guidance = IF trail = <<>> THEN ""
                                  ELSE guidance_of(trail[Len(trail)].provider,
                                                   trail[Len(trail)].result)]

\* the dictionary of lines 778-783: attempts[-1] is read only when the trail
\* is not empty
failure_return(trail, last_error) ==
    [NoResult EXCEPT !.returned = TRUE,
                     !.error = last_error,
                     !.guidance = IF trail # <<>>
                                  THEN guidance_of(trail[Len(trail)].provider,
                                                   trail[Len(trail)].result)
                                  ELSE NoneText]

\* the dictionary of lines 736-741
success_return(name) ==
    [NoResult EXCEPT !.returned = TRUE, !.success = TRUE, !.provider = name]

\* _send_with_providers returns res to send_email, which records it in the
\* metrics and returns result['success'] (lines 675-686); an exception
\* passes through send_email
Return(d, res) ==
    IF res.raised
    THEN [d EXCEPT !.pc = "done", !.result = res]
    ELSE [d EXCEPT !.pc = "done",
                   !.result = [res EXCEPT !.value = res.success],
                   !.counted = record_send(res)]

\* the move to the next provider with the trail started afresh
Advance_fresh(d) ==
    IF d.pi < Len(d.order)
    THEN [d EXCEPT !.pi = @ + 1, !.pc = "check", !.attempt = 0, !.attempts = <<>>]
    ELSE Return(d, failure_return(d.attempts, d.last_error))

\* the loop moves to the next provider, or past the last one to the return
\* of the failure result (lines 778-783)
Advance(d) ==
    IF d.pi < Len(d.order)
    THEN [d EXCEPT !.pi = @ + 1, !.pc = "check", !.attempt = 0]
    ELSE Return(d, failure_return(d.attempts, d.last_error))

\* a call of _send_with_providers begins: locals and provider order (690-706)
StartNotification ==
    /\ disp.pc \in {"idle", "done"}
    /\ disp.n < MaxNotifications
    /\ \E to_email \in Recipients :
         disp' = [IdleDisp EXCEPT !.pc = "check", !.n = disp.n + 1,
                                  !.order = provider_order(to_email), !.pi = 1]
    /\ UNCHANGED <<breakers, health, hist>>
    /\ UNCHANGED <<allocVars, probeVars, clockVars, breakerVars, limiterVars>>

\* the tests before a provider is used with the health test left out
Consult_nohealth(i, t) ==
    LET name == Providers[i]
        ca == can_attempt(breakers[name], t)
        ih == is_healthy(name, health[i], t)
    IN  IF ~ca.result
        THEN [breaker |-> ca.breaker, health |-> health[i], go |-> FALSE,
              can |-> FALSE, healthy |-> FALSE]
        ELSE [breaker |-> ca.breaker, health |-> ih.health, go |-> TRUE,
              can |-> TRUE, healthy |-> ih.result]

\* the two tests made before a provider is used (lines 713-720): is_healthy
\* is evaluated only when can_attempt returned true (healthy is FALSE when it
\* was not evaluated); can and healthy are what the two calls returned
Consult(i, t) ==
    LET name == Providers[i]
        ca == can_attempt(breakers[name], t)
        ih == is_healthy(name, health[i], t)
    IN  IF ~ca.result
        THEN [breaker |-> ca.breaker, health |-> health[i], go |-> FALSE,
              can |-> FALSE, healthy |-> FALSE]
        ELSE [breaker |-> ca.breaker, health |-> ih.health, go |-> ih.result,
              can |-> TRUE, healthy |-> ih.result]

\* what is kept of the tests of one provider: its name and the two answers
Consulted(i, c) == [provider |-> Providers[i], can |-> c.can, healthy |-> c.healthy]

SkipProvider ==
    LET i == disp.order[disp.pi]
        c == Consult(i, now)
    IN  /\ disp.pc = "check"
        /\ ~c.go
        /\ breakers' = [breakers EXCEPT ![Providers[i]] = c.breaker]
        /\ health' = [health EXCEPT ![i] = c.health]
        /\ disp' = Advance([disp EXCEPT !.skipped = @ \cup {i},
                                        !.consulted = Append(@, Consulted(i, c))])
        /\ UNCHANGED hist
        /\ UNCHANGED <<allocVars, probeVars, clockVars, breakerVars, limiterVars>>

EnterProvider ==
    LET i == disp.order[disp.pi]
        c == Consult(i, now)
    IN  /\ disp.pc = "check"
        /\ c.go
        /\ breakers' = [breakers EXCEPT ![Providers[i]] = c.breaker]
        /\ health' = [health EXCEPT ![i] = c.health]
        /\ disp' = [disp EXCEPT !.pc = "send", !.attempt = 0,
                                !.consulted = Append(@, Consulted(i, c))]
        /\ UNCHANGED hist
        /\ UNCHANGED <<allocVars, probeVars, clockVars, breakerVars, limiterVars>>

\* the test of line 750 never met
IsTransient_never(result) == FALSE

\* line 750
IsTransient(result) ==
    result.retry \/ result.status_code \in TransientStatusCodes

\* the retry loop with a success treated like a transient failure
after_result_noreturn(result, attempt) ==
    IF IsTransient(result) \/ result.success
    THEN (IF attempt < max_retries - 1 THEN "sleep" ELSE "exhausted")
    ELSE "break"

\* what the retry loop does with the result of attempt number attempt + 1
\* (lines 734-759): return it, sleep and go round again, fall out of the loop
\* after the last attempt, or break
after_result(result, attempt) ==
    IF result.success
    THEN "return"
    ELSE IF IsTransient(result)
         THEN (IF attempt < max_retries - 1 THEN "sleep" ELSE "exhausted")
         ELSE "break"

\* the breaker calls with record_failure made after every failed attempt
breaker_calls_eager(b, name, what, t) ==
    IF what = "return"
    THEN [breaker |-> record_success(b),
          calls |-> <<[op |-> "record_success", provider |-> name]>>]
    ELSE [breaker |-> record_failure(b, t),
          calls |-> <<[op |-> "record_failure", provider |-> name]>>]

\* the calls made on the provider's breaker once the result of an attempt has
\* been acted on: record_success before the return (line 735), record_failure
\* after the retry loop was left without a return (line 775), none when the
\* loop goes round; the breaker afterwards and the calls, in order
breaker_calls(b, name, what, t) ==
    IF what = "return"
    THEN [breaker |-> record_success(b),
          calls |-> <<[op |-> "record_success", provider |-> name]>>]
    ELSE IF what = "sleep"
         THEN [breaker |-> b, calls |-> <<>>]
         ELSE [breaker |-> record_failure(b, t),
               calls |-> <<[op |-> "record_failure", provider |-> name]>>]

\* one pass of the loop body: send_email is called, its result is appended to
\* the trail and acted on; leaving the loop without success calls
\* record_failure (line 775) and moves to the next provider
Send(result) ==
    LET i == disp.order[disp.pi]
        name == Providers[i]
        entry == [provider |-> name, attempt |-> disp.attempt + 1, result |-> result]
        what == after_result(result, disp.attempt)
        bc == breaker_calls(breakers[name], name, what, now)
        d1 == [disp EXCEPT !.attempts = Append(@, entry),
                           !.recorded = @ \o bc.calls,
                           !.last_error = IF result.success THEN @
                                          ELSE error_of(name, result),
                           !.sent = Append(@, [provider |-> name,
                                               success |-> result.success,
                                               error |-> error_of(name, result)])]
    IN  /\ disp.pc = "send"
        /\ result \in Results(name)
        /\ health' = [health EXCEPT ![i] = send_email(name, @, result, now)]
        /\ breakers' = [breakers EXCEPT ![name] = bc.breaker]
        /\ CASE what = "return" ->
                  /\ disp' = Return(d1, success_return(name))
                  /\ hist' = [hist EXCEPT ![i] = NoHist]
             [] what = "sleep" ->
                  /\ disp' = [d1 EXCEPT !.pc = "sleep"]
                  /\ UNCHANGED hist
             [] OTHER ->
                  /\ disp' = Advance(d1)
                  /\ hist' = [hist EXCEPT ![i] = [failures |-> @.failures + 1,
                                                  failed_at |-> now,
                                                  failed_in |-> disp.n]]
        /\ UNCHANGED <<allocVars, probeVars, clockVars, breakerVars, limiterVars>>

SendSucceeds == \E result \in SendGridResults \cup SmtpResults :
    result.success /\ Send(result)

SendFailsTransient == \E result \in SendGridResults \cup SmtpResults :
    ~result.success /\ IsTransient(result) /\ Send(result)

SendFailsPermanent == \E result \in SendGridResults \cup SmtpResults :
    ~result.success /\ ~IsTransient(result) /\ Send(result)

\* time.sleep(delay) returns and the loop goes round (lines 752-755)
Backoff ==
    /\ disp.pc = "sleep"
    /\ disp' = [disp EXCEPT !.pc = "send", !.attempt = @ + 1]
    /\ UNCHANGED <<breakers, health, hist>>
    /\ UNCHANGED <<allocVars, probeVars, clockVars, breakerVars, limiterVars>>

NextDispatch ==
    \/ StartNotification
    \/ SkipProvider
    \/ EnterProvider
    \/ SendSucceeds
    \/ SendFailsTransient
    \/ SendFailsPermanent
    \/ Backoff
    \/ Tick

SpecDispatch == InitDispatch /\ [][NextDispatch]_vars

-----------------------------------------------------------------------------
(* Properties of the dispatcher *)

Successes(trail) == { k \in 1..Len(trail) : trail[k].result.success }

\* C7: within one call of _send_with_providers a success ends the call: the
\* successful send_email call is the last one made, its entry is the last of
\* the attempt trail, the call has returned success naming that provider, and
\* a call that returned success has exactly one successful entry in its trail.
C7_SuccessReturnsAtOnce ==
    /\ \A k \in 1..Len(disp.sent) : disp.sent[k].success => k = Len(disp.sent)
    /\ \A k \in Successes(disp.attempts) :
         /\ k = Len(disp.attempts)
         /\ disp.pc = "done"
         /\ disp.result.returned /\ disp.result.success
         /\ disp.result.provider = disp.attempts[k].provider
    /\ (disp.result.returned /\ disp.result.success)
         => Cardinality(Successes(disp.attempts)) = 1

\* a notification that succeeded on the second provider after three failed
\* attempts on the first
C7_Witness ==
    /\ disp.pc = "done"
    /\ disp.result.success
    /\ Len(disp.attempts) = max_retries + 1
    /\ disp.attempts[1].provider # disp.result.provider
    /\ Successes(disp.attempts) = {Len(disp.attempts)}

\* the instances whose last failure_threshold notifications, all before the
\* current one, each ended without success, the last of them no more than
\* recovery_timeout seconds ago
RecentlyFailed ==
    { i \in Instances :
        /\ hist[i].failures >= failure_threshold
        /\ hist[i].failed_in < disp.n
        /\ now - hist[i].failed_at <= recovery_timeout }

\* the instances after position k of the order that were not passed over
UsedAfter(k) ==
    { j \in (k + 1)..Len(disp.order) : disp.order[j] \notin disp.skipped }

\* C9: while no more than 60 seconds have passed since a provider failed for
\* the fifth notification in a row, a notification does not call that
\* provider's send_email, has no entry for it in its attempt trail, and, the
\* provider being first in the order, makes its first attempt on the next
\* provider of the order that is not itself passed over.
C9_OpenProviderSkipped ==
    \A i \in RecentlyFailed :
        /\ \A k \in 1..Len(disp.sent) : disp.sent[k].provider # Providers[i]
        /\ \A k \in 1..Len(disp.attempts) : disp.attempts[k].provider # Providers[i]
        /\ (disp.pc # "check" \/ disp.order[disp.pi] # i) => i \in disp.skipped
        /\ (disp.order[1] = i /\ disp.attempts # <<>>)
             => /\ UsedAfter(1) # {}
                /\ disp.attempts[1].provider =
                     Providers[disp.order[CHOOSE j \in UsedAfter(1) :
                                            \A m \in UsedAfter(1) : j <= m]]

\* exactly 60 seconds after the first provider's latest failed notification,
\* the sixth in a row, the next notification has passed it over on the word
\* of its circuit breaker alone (the provider reports itself healthy) and has
\* returned the second provider's success
C9_Witness ==
    /\ disp.pc = "done"
    /\ disp.order[1] \in RecentlyFailed
    /\ health[disp.order[1]].consecutive_failures < SendGridUnhealthyAfter
    /\ now - hist[disp.order[1]].failed_at = recovery_timeout
    /\ disp.order[1] \in disp.skipped
    /\ disp.result.success
    /\ disp.result.provider = Providers[disp.order[2]]
    /\ Len(disp.attempts) = 1

-----------------------------------------------------------------------------
(* RateLimiter (src/common/email_sender.py), shared by several threads *)

\* RateLimiter(max_calls, time_window): the window SendGridProvider passes,
\* and a capacity small enough to be reached
max_calls == 2
time_window == 60

NumThreads == 2
MaxAcquires == 5

Threads == 1..NumThreads

\* Lock.acquire succeeds only on a free lock
LockFreeAlways(l) == TRUE

LockFree(l) == l = 0

\* the while loop of acquire: timestamps are dropped from the left for as
\* long as the leftmost is no later than t - time_window
RECURSIVE Evict(_, _)
Evict(q, t) ==
    IF q # <<>> /\ Head(q) <= t - time_window THEN Evict(Tail(q), t) ELSE q

\* pc: idle, wait (blocked on the lock), locked (lock held, clock read),
\* test (old timestamps dropped), append and refuse (the two branches of the
\* capacity test).  made counts the calls of acquire; ret is what the last
\* call returned: admitted is the value True, otherwise wait is the float,
\* at the clock reading of the refused call and seen the number of calls
\* admitted by then.
NoReturn == [returned |-> FALSE, admitted |-> FALSE, wait |-> 0, at |-> NoTime, seen |-> 0]

IdleThread ==
    [pc |-> "idle", now |-> NoTime, made |-> 0, ret |-> NoReturn]

\* the calls of acquire made so far by all threads
RECURSIVE SumMade(_)
SumMade(T) ==
    IF T = {} THEN 0
    ELSE LET t == CHOOSE u \in T : TRUE IN thr[t].made + SumMade(T \ {t})

TotalMade == SumMade(Threads)

InitLimiter ==
    /\ now = FirstInstant
    /\ calls = <<>>
    /\ lock = 0
    /\ thr = [t \in Threads |-> IdleThread]
    /\ admitted = <<>>
    /\ AllocParked /\ probe = <<>> /\ BreakerParked /\ DispatchParked

\* a thread calls acquire and reaches the with statement
CallAcquire(t) ==
    /\ thr[t].pc = "idle"
    /\ TotalMade < MaxAcquires
    /\ thr' = [thr EXCEPT ![t].pc = "wait", ![t].made = @ + 1]
    /\ UNCHANGED <<calls, lock, admitted>>
    /\ UNCHANGED <<allocVars, probeVars, clockVars, breakerVars, dispatchVars>>

\* it takes the lock and reads the clock (lines 86-87)
TakeLock(t) ==
    /\ thr[t].pc = "wait"
    /\ LockFree(lock)
    /\ lock' = t
    /\ thr' = [thr EXCEPT ![t].pc = "locked", ![t].now = now]
    /\ UNCHANGED <<calls, admitted>>
    /\ UNCHANGED <<allocVars, probeVars, clockVars, breakerVars, dispatchVars>>

\* lines 90-91
DropOld(t) ==
    /\ thr[t].pc = "locked"
    /\ calls' = Evict(calls, thr[t].now)
    /\ thr' = [thr EXCEPT ![t].pc = "test"]
    /\ UNCHANGED <<lock, admitted>>
    /\ UNCHANGED <<allocVars, probeVars, clockVars, breakerVars, dispatchVars>>

\* line 93
TestCapacity(t) ==
    /\ thr[t].pc = "test"
    /\ thr' = [thr EXCEPT ![t].pc =
                 IF Len(calls) < max_calls THEN "append" ELSE "refuse"]
    /\ UNCHANGED <<calls, lock, admitted>>
    /\ UNCHANGED <<allocVars, probeVars, clockVars, breakerVars, dispatchVars>>

\* lines 94-95: the call is admitted, the lock released
Admit(t) ==
    /\ thr[t].pc = "append"
    /\ calls' = Append(calls, thr[t].now)
    /\ admitted' = Append(admitted, thr[t].now)
    /\ lock' = 0
    /\ thr' = [thr EXCEPT ![t].pc = "idle",
                          ![t].ret = [NoReturn EXCEPT !.returned = TRUE,
                                                      !.admitted = TRUE]]
    /\ UNCHANGED <<allocVars, probeVars, clockVars, breakerVars, dispatchVars>>

\* the wait computed from the newest stored timestamp
wait_time_newest(q, t) == q[Len(q)] + time_window - t

\* lines 98-99: oldest_call + self.time_window - now
wait_time(q, t) == Head(q) + time_window - t

\* lines 98-100: the wait time is returned, the lock released
Refuse(t) ==
    /\ thr[t].pc = "refuse"
    /\ calls # <<>>
    /\ lock' = 0
    /\ thr' = [thr EXCEPT ![t].pc = "idle",
                          ![t].ret = [returned |-> TRUE, admitted |-> FALSE,
                                      wait |-> wait_time(calls, thr[t].now),
                                      at |-> thr[t].now, seen |-> Len(admitted)]]
    /\ UNCHANGED <<calls, admitted>>
    /\ UNCHANGED <<allocVars, probeVars, clockVars, breakerVars, dispatchVars>>

NextLimiter ==
    \/ \E t \in Threads : CallAcquire(t)
    \/ \E t \in Threads : TakeLock(t)
    \/ \E t \in Threads : DropOld(t)
    \/ \E t \in Threads : TestCapacity(t)
    \/ \E t \in Threads : Admit(t)
    \/ \E t \in Threads : Refuse(t)
    \/ Tick

SpecLimiter == InitLimiter /\ [][NextLimiter]_vars

\* the admitted calls stamped in the trailing interval (t - time_window, t]
AdmittedInWindow(t) ==
    { k \in 1..Len(admitted) : t - time_window < admitted[k] /\ admitted[k] <= t }

\* C10: whatever the threads do, the admitted calls stamped within the
\* time_window seconds up to any instant number at most max_calls, and the
\* stored queue never holds more than max_calls timestamps.
C10_WindowWithinCapacity ==
    /\ \A t \in Instants : Cardinality(AdmittedInWindow(t)) <= max_calls
    /\ Len(calls) <= max_calls

\* after the window filled and one thread was refused, the clock has moved
\* on: the other thread, holding the lock, has dropped old timestamps and is
\* about to be admitted while the refused thread waits for the lock again
C10_Witness ==
    \E t, u \in Threads :
        /\ t # u
        /\ thr[t].pc = "wait"
        /\ thr[t].ret.returned /\ ~thr[t].ret.admitted
        /\ thr[u].pc = "append"
        /\ lock = u
        /\ Len(admitted) = max_calls
        /\ Len(calls) < Len(admitted)

\* the timestamps admitted before a refusal that lay in the window of the
\* refused call
InWindowAtRefusal(r) ==
    { admitted[k] : k \in { j \in 1..r.seen : r.at - time_window < admitted[j] } }

Oldest(S) == CHOOSE x \in S : \A y \in S : x <= y

\* C11: a refused acquire found max_calls admitted timestamps in its window
\* and returned the oldest of them + time_window - now, a positive wait; the
\* same thread's next acquire, reading the clock no earlier than that wait
\* after the refusal with no call admitted in between, takes the admitting
\* branch of the capacity test.
C11_WaitThenAdmitted ==
    \A t \in Threads :
        (thr[t].ret.returned /\ ~thr[t].ret.admitted) =>
            /\ Cardinality({ k \in 1..thr[t].ret.seen :
                               thr[t].ret.at - time_window < admitted[k] }) = max_calls
            /\ thr[t].ret.wait =
                 Oldest(InWindowAtRefusal(thr[t].ret)) + time_window - thr[t].ret.at
            /\ thr[t].ret.wait > 0
            /\ (/\ thr[t].pc \in {"append", "refuse"}
                /\ thr[t].now >= thr[t].ret.at + thr[t].ret.wait
                /\ Len(admitted) = thr[t].ret.seen)
                 => thr[t].pc = "append"

\* a thread refused with a wait of 59 seconds, max_calls calls having been
\* admitted within the second before, has called again after the wait and is
\* about to be admitted
C11_Witness ==
    \E t \in Threads :
        /\ thr[t].ret.returned /\ ~thr[t].ret.admitted
        /\ thr[t].ret.wait = time_window - 1
        /\ thr[t].ret.seen = max_calls
        /\ thr[t].pc = "append"
        /\ thr[t].now >= thr[t].ret.at + thr[t].ret.wait
        /\ Len(admitted) = thr[t].ret.seen

-----------------------------------------------------------------------------
(* REDCapClient._make_request and the classifier of the error it raises *)

\* Response bodies, each with whether it contains, in any letter case, one of
\* "unique constraint", "duplicate", "already exists"
BodyTable ==
    { [text |-> NoBody, hit |-> FALSE],
      [text |-> DuplicateBody, hit |-> TRUE],
      [text |-> FieldBody, hit |-> FALSE],
      [text |-> DeniedBody, hit |-> FALSE],
      [text |-> <<"A", "L", "R", "E", "A", "D", "Y", " ", "E", "X", "I", "S", "T", "S">>,
       hit |-> TRUE],
      [text |-> <<"a", " ", "U", "n", "i", "q", "u", "e", " ", "c", "o", "n", "s", "t",
                  "r", "a", "i", "n", "t", ".">>, hit |-> TRUE],
      [text |-> <<"u", "n", "i", "q", "u", "e", "c", "o", "n", "s", "t", "r", "a", "i",
                  "n", "t">>, hit |-> FALSE],
      [text |-> <<"d", "u", "p", "l", "i", "c", "a", "t">>, hit |-> FALSE],
      [text |-> <<"a", "l", "r", "e", "a", "d", "y", " ", "e", "x", "i", "s", "t">>,
       hit |-> FALSE] }

\* status codes of a response; NoStatus stands for a request that ended in a
\* requests.exceptions.RequestException and produced no response
ResponseStatuses == {NoStatus, 200, 400, 403, 409, 422, 500}

\* _make_request: a response with status_code >= 400 raises RedcapApiError
\* with the status code and the body, a transport failure raises one with
\* neither, any other response is returned
make_request(status, text) ==
    IF status = NoStatus
    THEN [raised |-> TRUE, error |-> RedcapApiError(NoStatus, NoBody)]
    ELSE IF status >= 400
         THEN [raised |-> TRUE, error |-> RedcapApiError(status, text)]
         ELSE [raised |-> FALSE, error |-> RedcapApiError(NoStatus, NoBody)]

InitClassify ==
    /\ \E status \in ResponseStatuses : \E body \in BodyTable :
         probe = [called |-> FALSE, status |-> status, body |-> body,
                  raised |-> FALSE, collision |-> FALSE]
    /\ AllocParked
    /\ ClockParked /\ BreakerParked /\ DispatchParked /\ LimiterParked

\* one request, and the classification of the error it raised
CallMakeRequest ==
    LET res == make_request(probe.status, probe.body.text)
    IN  /\ ~probe.called
        /\ probe' = [probe EXCEPT !.called = TRUE, !.raised = res.raised,
                                  !.collision = res.raised
                                      /\ is_unique_constraint_violation(res.error)]
        /\ UNCHANGED <<allocVars, clockVars, breakerVars, dispatchVars, limiterVars>>

NextClassify == CallMakeRequest

SpecClassify == InitClassify /\ [][NextClassify]_vars

\* C13: the error raised for a response is classified as a collision exactly
\* when the status code is 400, 409 or 422 and the body contains one of the
\* detection strings; a transport failure, which has neither status code nor
\* body, any other status code, an empty body and a body without any of the
\* strings are not.
C13_ClassifierExact ==
    probe.called =>
        /\ probe.raised <=> (probe.status = NoStatus \/ probe.status >= 400)
        /\ probe.collision <=>
             (probe.status \in {400, 409, 422} /\ probe.body.hit)

\* a 409 response whose body says "ALREADY EXISTS" in capitals is a collision
C13_Witness ==
    /\ probe.called
    /\ probe.status = 409
    /\ probe.body.text # Lower(probe.body.text)
    /\ probe.body.hit
    /\ probe.collision

-----------------------------------------------------------------------------
(* What the caller of process_records observes *)

\* process_records has two return statements, `return 0` in the handler of
\* the failed batch fetch (line 137) and `return processed` after the summary
\* (line 282); every RedcapApiError and ValueError raised inside it is caught
\* (lines 135, 170, 191, 247, 260), so the call never raises.
Outcome(p) == [raised |-> FALSE, value |-> proc[p].processed]

\* the outcome of a run whose batch holds no record: the loop body never
\* runs, processed keeps its initial 0 (line 141) and is returned
NoRecordsOutcome == [raised |-> FALSE, value |-> 0]

\* C14 (as claimed): a run of process_records in which a repository
\* communication failure occurred while fetching the batch or allocating an
\* identifier ends with an outcome the caller can tell apart from that of a
\* run that had no records to assign.
C14_FailurePropagated ==
    \A p \in Procs :
        (proc[p].pc = "done" /\ proc[p].failed) => Outcome(p) # NoRecordsOutcome

\* the records whose identifier field differs between two repository contents
IdChanged(rp, rq) == { r \in AllRecords : rp[r].id # rq[r].id }

\* C15: process_records writes an identifier only to a record whose
\* eligibility check returned ELIGIBLE and whose QIDS score is an integer of
\* at most 20, from the healthy-control range when the score is at most 10 and
\* from the MDD range when it is 11..20; the write for a record whose check
\* returned INELIGIBLE or REVIEW_REQUIRED carries the status only and leaves
\* every identifier as it was.
C15_OnlyEligibleAssigned ==
    [][/\ \A r \in IdChanged(repo, repo') :
            LET q == ParseInt(Strip(attrs[r].qids))
                v == ParseInt(Strip(repo'[r].id))
            IN  /\ check_eligibility(attrs[r]) = "ELIGIBLE"
                /\ q.ok /\ q.val <= 20
                /\ v.ok
                /\ q.val <= 10 => (HCMin <= v.val /\ v.val <= HCMax)
                /\ q.val >= 11 => (MDDMin <= v.val /\ v.val <= MDDMax)
       /\ \A p \in Procs :
            (proc[p].pc = "write_status" /\ proc'[p].pc # "write_status")
                => /\ check_eligibility(attrs[proc[p].batch[proc[p].idx]]) # "ELIGIBLE"
                   /\ IdChanged(repo, repo') = {}
      ]_vars

\* One batch has given a record of the MDD group an identifier of the MDD
\* range and has written the status of a record under review, which holds no
\* identifier.
C15_Witness ==
    \E r1, r2 \in PendingRecords :
        /\ check_eligibility(attrs[r1]) = "REVIEW_REQUIRED"
        /\ repo[r1].status = "manual_review_required"
        /\ repo[r1].id = Empty
        /\ ParseInt(Strip(attrs[r2].qids)).val \in 11..20
        /\ MDDMin <= AssignedValue(r2) /\ AssignedValue(r2) <= MDDMax

\* The import process p is about to make failed with an error that is not a
\* collision: an injected permission or network error (the fault counter
\* moves), or the repository's refusal of the payload.
WriteFailsFatally(p) ==
    LET st == proc[p]
        res == RepoImport(repo, st.batch[st.idx], IntToStr(st.new_id),
                          "eligible_id_assigned", st.pc = "write_flag", flagField)
    IN  /\ st.pc \in {"write_flag", "write_noflag"}
        /\ proc'[p] # st
        /\ \/ faults' # faults
           \/ ~res.ok /\ ~is_unique_constraint_violation(res.error)

\* C16 (as claimed): after an import of a candidate identifier failed with an
\* error that is not a collision, the process makes no further import for
\* that record in the batch and counts the record as an error.
C16_FatalWriteNotRepeated ==
    [][\A p \in Procs :
          WriteFailsFatally(p)
              => /\ proc'[p].pc \notin {"write_flag", "write_noflag"}
                 /\ proc'[p].errors > proc[p].errors]_vars

\* the positions of process_records inside one attempt of the retry loop
InAttempt == {"read_ids", "write_flag", "write_noflag"}

\* C17: the allocation for one record makes at most MAX_RETRIES attempts;
\* every attempt starts with a read of the repository, the candidate written
\* in an attempt is the one computed from that read, and when the last attempt
\* too is lost to a collision the process writes nothing more for the record,
\* counts one error and moves on.
C17_BoundedFreshAttempts ==
    [][\A p \in Procs :
          LET st == proc[p]
              nx == proc'[p]
          IN  /\ st.attempt < MAX_RETRIES /\ nx.attempt < MAX_RETRIES
              /\ nx.attempt # st.attempt
                   => /\ nx.pc = "read_ids"
                      /\ nx.attempt = IF st.pc = "next" THEN 0 ELSE st.attempt + 1
              /\ (st.pc = "read_ids" /\ nx.pc = "write_flag")
                   => /\ nx.new_id = get_next_dynamic_id(repo, st.group_type).next_id
                      /\ nx.attempt = st.attempt
              /\ (nx.pc \in {"write_flag", "write_noflag"} /\ nx # st)
                   => /\ st.pc \in {"read_ids", "write_flag"}
                      /\ st.pc = "write_flag"
                           => nx.new_id = st.new_id /\ nx.attempt = st.attempt
              /\ (st.pc \in InAttempt /\ last'[p].kind = "retries_exhausted" /\ nx # st)
                   => /\ st.attempt = MAX_RETRIES - 1
                      /\ nx.pc = "next" /\ nx.idx = st.idx + 1
                      /\ nx.errors = st.errors + 1
                      /\ nx.processed = st.processed
                      /\ repo' = repo]_vars

\* A process lost all three attempts for a record to collisions: three
\* contested values, one error counted, the record without an identifier.
C17_Witness ==
    \E p \in Procs :
        /\ last[p].kind = "retries_exhausted"
        /\ last[p].attempt = MAX_RETRIES - 1
        /\ Cardinality(proc[p].contested) = MAX_RETRIES
        /\ proc[p].errors = proc[p].errors0 + 1
        /\ repo[last[p].rec].id = Empty

-----------------------------------------------------------------------------
(* The half-open breaker *)

\* the step is a call of record_failure (the only call that counts a failure)
IsRecordFailure == call'.failures = call.failures + 1

\* the step is a call of record_success (the only call that counts a success)
IsRecordSuccess == cb'.success_count = cb.success_count + 1

\* C18 (as claimed): a record_failure call on a breaker that is half-open
\* leaves it open, whatever was recorded since it became half-open.
C18_HalfOpenFailureOpens ==
    [][(cb.state = "half_open" /\ IsRecordFailure) => cb'.state = "open"]_vars

\* C19 (as claimed): a half-open breaker becomes closed exactly at the
\* record_success call that completes success_threshold successes in a row
\* since it became half-open, and a record_success call leaves a closed or an
\* open breaker in the state it was in.
C19_ClosesAfterThresholdSuccesses ==
    [][/\ (cb.state = "half_open" /\ IsRecordSuccess)
            => (cb'.state = "closed" <=> call'.streak = success_threshold)
       /\ (cb.state = "half_open" /\ cb'.state = "closed") => IsRecordSuccess
       /\ (cb.state \in {"closed", "open"} /\ IsRecordSuccess)
            => cb'.state = cb.state]_vars

-----------------------------------------------------------------------------
(* The breaker calls of one notification *)

\* the provider whose retry loop the notification is in
InRetryLoop(name) ==
    /\ disp.pc \in {"send", "sleep"}
    /\ Providers[disp.order[disp.pi]] = name

TrailOf(name) == { k \in DOMAIN disp.attempts : disp.attempts[k].provider = name }

Delivered(name) == \E k \in TrailOf(name) : disp.attempts[k].result.success

\* send_email of the provider was called in this notification, no call
\* succeeded, and its retry loop has been left
GaveUp(name) == TrailOf(name) # {} /\ ~Delivered(name) /\ ~InRetryLoop(name)

CallsOf(op, name) ==
    Cardinality({ k \in DOMAIN disp.recorded :
                    disp.recorded[k] = [op |-> op, provider |-> name] })

-----------------------------------------------------------------------------
(* Which providers one notification sends through, and how often *)

\* C21: within one notification send_email of a provider has been called only
\* if, in this notification, can_attempt of its breaker returned true and then
\* its is_healthy returned true, and it has been called at most max_retries
\* times, with attempt numbers 1 .. max_retries.
C21_SendOnlyWhenAllowed ==
    \A name \in ProviderNames :
        TrailOf(name) # {}
            => /\ \E k \in DOMAIN disp.consulted :
                    disp.consulted[k] = [provider |-> name, can |-> TRUE, healthy |-> TRUE]
               /\ Cardinality(TrailOf(name)) <= max_retries
               /\ \A k \in TrailOf(name) : disp.attempts[k].attempt \in 1..max_retries

\* One notification called its first provider max_retries times and skipped
\* the second on the health test, after the breaker had allowed the attempt.
C21_Witness ==
    /\ Len(disp.consulted) = 2
    /\ disp.consulted[1].can /\ disp.consulted[1].healthy
    /\ Cardinality(TrailOf(disp.consulted[1].provider)) = max_retries
    /\ disp.consulted[2].can /\ ~disp.consulted[2].healthy
    /\ TrailOf(disp.consulted[2].provider) = {}

\* a failed result that is marked transient: retry flag set, or one of the
\* status codes 429, 500, 502, 503, 504
MarkedTransient(r) ==
    ~r.success /\ (r.retry \/ r.status_code \in {429, 500, 502, 503, 504})

\* C22: in the trail of one notification, a failed attempt marked transient
\* that was not the provider's last allowed attempt is followed by the next
\* attempt on the same provider (or the dispatcher is still in that
\* provider's retry loop); a failed attempt that is not marked transient is
\* the provider's last entry, the retry loop has been left, and any later
\* entry belongs to a provider further down the order.
C22_TransientRetriedPermanentNot ==
    \A k \in DOMAIN disp.attempts :
        LET e == disp.attempts[k]
        IN  /\ (MarkedTransient(e.result) /\ e.attempt < max_retries)
                => IF k < Len(disp.attempts)
                   THEN /\ disp.attempts[k + 1].provider = e.provider
                        /\ disp.attempts[k + 1].attempt = e.attempt + 1
                   ELSE InRetryLoop(e.provider)
            /\ (~e.result.success /\ ~MarkedTransient(e.result))
                => /\ \A j \in DOMAIN disp.attempts :
                        j > k => disp.attempts[j].provider # e.provider
                   /\ ~InRetryLoop(e.provider)
                   /\ disp.pc = "check"
                        => Providers[disp.order[disp.pi]] # e.provider

\* A notification retried its first provider after a transient failure, got a
\* permanent failure on the second attempt and went on to the next provider.
C22_Witness ==
    /\ Len(disp.attempts) = 3
    /\ MarkedTransient(disp.attempts[1].result)
    /\ disp.attempts[2].provider = disp.attempts[1].provider
    /\ ~disp.attempts[2].result.success /\ ~MarkedTransient(disp.attempts[2].result)
    /\ disp.attempts[3].provider # disp.attempts[1].provider

-----------------------------------------------------------------------------
(* The providers' use of the rate limiter: send_email called by several
   threads (SendGridProvider lines 176-183, StanfordSMTPHandler lines 474-502) *)

MaxSends == 4

\* RateLimiter.acquire as one step (the body runs with the lock held): the
\* queue afterwards, whether True was returned, and the wait time otherwise
acquire(q, t) ==
    LET q1 == Evict(q, t)
    IN  IF Len(q1) < max_calls
        THEN [calls |-> Append(q1, t), admitted |-> TRUE, wait |-> 0]
        ELSE [calls |-> q1, admitted |-> FALSE, wait |-> wait_time(q1, t)]

\* a thread inside send_email: idle, or sleeping (time.sleep(result), until
\* wake).  sent is the thread's transmissions: provider, clock, and whether
\* the last acquire made in that call had returned True.  The message is
\* taken to leave at the clock reading of the last rate-limit line.
IdleSender == [pc |-> "idle", wake |-> NoTime, sent |-> <<>>]

Sent(name, t, ok) == [provider |-> name, at |-> t, ok |-> ok]

RECURSIVE SumSent(_)
SumSent(T) ==
    IF T = {} THEN 0
    ELSE LET t == CHOOSE u \in T : TRUE IN Len(thr[t].sent) + SumSent(T \ {t})

Busy == Cardinality({ t \in Threads : thr[t].pc # "idle" })

InitSend ==
    /\ now = FirstInstant
    /\ calls = <<>>
    /\ lock = 0
    /\ thr = [t \in Threads |-> IdleSender]
    /\ admitted = <<>>
    /\ AllocParked /\ probe = <<>> /\ BreakerParked /\ DispatchParked

\* SendGridProvider.send_email, lines 179-180: the first acquire; when it
\* returns True the message is sent (lines 185-234)
SendGridAcquire(t) ==
    LET r == acquire(calls, now)
    IN  /\ thr[t].pc = "idle"
        /\ SumSent(Threads) + Busy < MaxSends
        /\ calls' = r.calls
        /\ admitted' = IF r.admitted THEN Append(admitted, now) ELSE admitted
        /\ thr' = [thr EXCEPT ![t] =
                     IF r.admitted
                     THEN [@ EXCEPT !.sent = Append(@, Sent("sendgrid", now, TRUE))]
                     ELSE [@ EXCEPT !.pc = "sleeping", !.wake = now + r.wait]]
        /\ UNCHANGED lock
        /\ UNCHANGED <<allocVars, probeVars, clockVars, breakerVars, dispatchVars>>

\* lines 182-183: time.sleep(result) has returned and acquire is called a
\* second time; what it returns is not looked at and the message is sent
SendGridAcquireAgain(t) ==
    LET r == acquire(calls, now)
    IN  /\ thr[t].pc = "sleeping"
        /\ now >= thr[t].wake
        /\ calls' = r.calls
        /\ admitted' = IF r.admitted THEN Append(admitted, now) ELSE admitted
        /\ thr' = [thr EXCEPT ![t] =
                     [@ EXCEPT !.pc = "idle", !.wake = NoTime,
                               !.sent = Append(@, Sent("sendgrid", now, r.admitted))]]
        /\ UNCHANGED lock
        /\ UNCHANGED <<allocVars, probeVars, clockVars, breakerVars, dispatchVars>>

\* StanfordSMTPHandler.send_email: the message is built and sent (lines
\* 476-500); the class has no rate limiter and calls none
SmtpSendEmail(t) ==
    /\ thr[t].pc = "idle"
    /\ SumSent(Threads) + Busy < MaxSends
    /\ thr' = [thr EXCEPT ![t].sent = Append(@, Sent("stanford_smtp", now, FALSE))]
    /\ UNCHANGED <<calls, lock, admitted>>
    /\ UNCHANGED <<allocVars, probeVars, clockVars, breakerVars, dispatchVars>>

NextSend ==
    \/ \E t \in Threads : SendGridAcquire(t)
    \/ \E t \in Threads : SendGridAcquireAgain(t)
    \/ \E t \in Threads : SmtpSendEmail(t)
    \/ Tick

SpecSend == InitSend /\ [][NextSend]_vars

\* the transmissions of a provider stamped in the interval (u - time_window, u]
SentInWindow(name, u) ==
    { <<t, k>> \in Threads \X (1..MaxSends) :
        /\ k <= Len(thr[t].sent)
        /\ thr[t].sent[k].provider = name
        /\ u - time_window < thr[t].sent[k].at /\ thr[t].sent[k].at <= u }

\* C23 (as claimed): every message a provider transmitted was admitted by an
\* acquire of that provider's rate limiter made in the same send_email call,
\* and the provider's transmissions within the time_window seconds up to any
\* instant number at most max_calls.
C23_TransmitOnlyWhenAdmitted ==
    /\ \A t \in Threads : \A k \in DOMAIN thr[t].sent : thr[t].sent[k].ok
    /\ \A u \in Instants : Cardinality(SentInWindow("sendgrid", u)) <= max_calls

-----------------------------------------------------------------------------
(* The breakers of a list of provider instances
   (MultiProviderEmailSender.__init__, lines 657-664) *)

MaxBreakerCalls == 4

\* get_provider_name of the instances create_providers can return, in list
\* order: SendGrid, Stanford SMTP, an alternative SMTP server, the
\* unencrypted Stanford fallback (a second StanfordSMTPHandler)
ProviderLists ==
    { <<"sendgrid", "stanford_smtp">>,
      <<"sendgrid", "stanford_smtp", "smtp_alt">>,
      <<"sendgrid", "stanford_smtp", "stanford_smtp">>,
      <<"stanford_smtp", "smtp_alt", "stanford_smtp">> }

\* the dictionary comprehension of lines 660-663: one entry per key
circuit_breakers(providers) ==
    [name \in { providers[i] : i \in DOMAIN providers } |-> NewBreaker]

\* line 710: the breaker consulted for instance i
BreakerOf(i) == breakers[disp.providers[i]]

\* allowed: the instances for which can_attempt has returned True and no
\* record_ call has followed yet; n counts the calls
InitShared ==
    /\ now = FirstInstant
    /\ \E providers \in ProviderLists :
         /\ disp = [providers |-> providers, allowed |-> {}, n |-> 0,
                     to_email |-> <<>>, order |-> <<>>]
         /\ breakers = circuit_breakers(providers)
    /\ health = <<>>
    /\ hist = <<>>
    /\ AllocParked /\ probe = <<>> /\ BreakerParked /\ LimiterParked

\* a notification begins: the provider order for its recipient (lines 693-706)
OrderFor(to_email) ==
    /\ disp.allowed = {}
    /\ disp' = [disp EXCEPT !.to_email = to_email,
                            !.order = sorted_providers(disp.providers, to_email)]
    /\ UNCHANGED <<breakers, health, hist>>
    /\ UNCHANGED <<allocVars, probeVars, clockVars, breakerVars, limiterVars>>

\* line 713
CanAttemptFor(i) ==
    LET name == disp.providers[i]
        r == can_attempt(breakers[name], now)
    IN  /\ i \in DOMAIN disp.providers
        /\ disp.n < MaxBreakerCalls
        /\ i \notin disp.allowed
        /\ breakers' = [breakers EXCEPT ![name] = r.breaker]
        /\ disp' = [disp EXCEPT !.n = @ + 1,
                                !.allowed = IF r.result THEN @ \cup {i} ELSE @]
        /\ UNCHANGED <<health, hist>>
        /\ UNCHANGED <<allocVars, probeVars, clockVars, breakerVars, limiterVars>>

\* line 735
RecordSuccessFor(i) ==
    LET name == disp.providers[i]
    IN  /\ i \in DOMAIN disp.providers
        /\ i \in disp.allowed
        /\ breakers' = [breakers EXCEPT ![name] = record_success(@)]
        /\ disp' = [disp EXCEPT !.allowed = @ \ {i}]
        /\ UNCHANGED <<health, hist>>
        /\ UNCHANGED <<allocVars, probeVars, clockVars, breakerVars, limiterVars>>

\* line 775
RecordFailureFor(i) ==
    LET name == disp.providers[i]
    IN  /\ i \in DOMAIN disp.providers
        /\ i \in disp.allowed
        /\ breakers' = [breakers EXCEPT ![name] = record_failure(@, now)]
        /\ disp' = [disp EXCEPT !.allowed = @ \ {i}]
        /\ UNCHANGED <<health, hist>>
        /\ UNCHANGED <<allocVars, probeVars, clockVars, breakerVars, limiterVars>>

NextShared ==
    \/ \E to_email \in Recipients : OrderFor(to_email)
    \/ \E i \in 1..3 : CanAttemptFor(i)
    \/ \E i \in 1..3 : RecordSuccessFor(i)
    \/ \E i \in 1..3 : RecordFailureFor(i)
    \/ Tick

SpecShared == InitShared /\ [][NextShared]_vars

\* C24 (as claimed): a record_success or record_failure call made for one
\* provider instance leaves the breaker consulted for every other instance
\* of the list as it was.
C24_OwnBreakerPerInstance ==
    [][\A i \in DOMAIN disp.providers :
          (i \in disp.allowed /\ i \notin disp'.allowed)
              => \A j \in DOMAIN disp.providers :
                     j # i => breakers'[disp.providers[j]] = breakers[disp.providers[j]]]_vars

ApiPositions ==
    { a \in DOMAIN disp.order : disp.providers[disp.order[a]] = "sendgrid" }

RelayPositions ==
    { b \in DOMAIN disp.order : disp.providers[disp.order[b]] # "sendgrid" }

\* C26 (as claimed): in the order in which a notification tries the
\* providers, sendgrid comes before every SMTP provider when the recipient's
\* address ends in @stanford.edu, and every SMTP provider comes before
\* sendgrid when it does not.
C26_OrderByRecipientDomain ==
    disp.order # <<>>
        => \A a \in ApiPositions : \A b \in RelayPositions :
               IF EndsWith(Lower(disp.to_email), StanfordSuffix) THEN a < b ELSE b < a

-----------------------------------------------------------------------------
(* REDCapEligibilityProcessor.process_eligible_records
   (src/common/email_sender.py).  One run of the processor over the
   repository: repo holds study_id and eligibility_email_sent of each record,
   attrs the fields the run only reads, proc the position of the run. *)

NumNotifyRecords == 2

NotifyRecords == 1..NumNotifyRecords

\* the contents a record can have when the run starts
NotifyProfiles ==
    LET addr == <<"x", "@", "y", ".", "e", "d", "u">>
        P(sid, sent, elig, email, qids) ==
            [study_id |-> sid, eligibility_email_sent |-> sent,
             is_eligible_basic |-> elig, participant_email |-> email,
             qids_score |-> qids]
    IN  { P(<<"3", "4", "7", "0">>, "1", "1", addr, <<"5">>),
          P(<<>>, "", "0", addr, <<"5">>),
          P(<<>>, "", "1", <<>>, <<"5">>),
          P(<<>>, "", "1", addr, <<"5">>),
          P(<<>>, "", "1", addr, <<"1", "5">>),
          P(<<>>, "", "1", addr, <<>>),
          P(<<"H", "C", "-", "3", "4", "8", "0">>, "", "1", addr, <<"5">>) }

StartsWith(s, prefix) ==
    /\ Len(s) >= Len(prefix)
    /\ SubSeq(s, 1, Len(prefix)) = prefix

RECURSIVE UpToDash(_)
\* the text before the first '-' (the whole text when it has none)
UpToDash(s) ==
    IF s = <<>> \/ Head(s) = "-" THEN <<>> ELSE <<Head(s)>> \o UpToDash(Tail(s))

\* sid.split('-')[1] of a text that contains a '-'
SplitSecond(s) ==
    UpToDash(SubSeq(s, Len(UpToDash(s)) + 2, Len(s)))

\* the number get_next_id reads from one study_id: ok = FALSE when int() raises
StudyIdNumber(sid, prefix) ==
    IF Contains(sid, <<"-">>) /\ StartsWith(sid, prefix)
    THEN ParseInt(SplitSecond(sid))
    ELSE ParseInt(sid)

\* REDCapEligibilityProcessor.get_next_id on the repository content rp
get_next_id(rp, is_hc) ==
    LET Nums(prefix) ==
            { StudyIdNumber(rp[r].study_id, prefix).val :
                r \in { q \in DOMAIN rp :
                          /\ rp[q].study_id # <<>>
                          /\ StudyIdNumber(rp[q].study_id, prefix).ok } }
    IN  IF is_hc
        THEN SetMax({3465} \cup { n \in Nums(<<"H", "C", "-">>) : n < 10000 }) + 1
        ELSE SetMax({10925} \cup { n \in Nums(<<"M", "D", "D", "-">>) : n >= 10000 }) + 1

IdleRun ==
    [pc |-> "fetch", i |-> 0, records |-> <<>>, study_id |-> <<>>,
     events |-> <<>>, processed |-> <<>>, failed |-> <<>>]

\* one entry of the log of what the run did to a record
RunEvent(what, record_id) == [what |-> what, record_id |-> record_id]

InitProcessor ==
    /\ \E content \in [NotifyRecords -> NotifyProfiles] :
         /\ repo = [r \in NotifyRecords |->
                      [study_id |-> content[r].study_id,
                       eligibility_email_sent |-> content[r].eligibility_email_sent]]
         /\ attrs = [r \in NotifyRecords |->
                       [is_eligible_basic |-> content[r].is_eligible_basic,
                        participant_email |-> content[r].participant_email,
                        qids_score |-> content[r].qids_score]]
    /\ proc = IdleRun
    /\ flagField = TRUE
    /\ faults = 0
    /\ last = <<>>
    /\ probe = <<>>
    /\ ClockParked /\ BreakerParked /\ DispatchParked /\ LimiterParked

\* the fetched copy of record i
Fetched(i) == proc.records[i]

\* a run that goes on to mark_email_sent whatever the dispatcher answered
after_send_always(run, i, success) ==
    [run EXCEPT !.pc = "mark"]

\* what the run does with the answer of send_eligibility_email for record i
after_send(run, i, success) ==
    IF success THEN [run EXCEPT !.pc = "mark"]
    ELSE [run EXCEPT !.pc = "loop", !.i = i + 1,
                     !.failed = Append(@, i)]

\* the export at the head of the run: a status other than 200 returns [],
\* and so does an exception of the request
FetchAll(ok) ==
    /\ proc.pc = "fetch"
    /\ proc' = IF ok
               THEN [proc EXCEPT !.pc = "loop", !.i = 1,
                                 !.records = [r \in NotifyRecords |->
                                                [record_id |-> r,
                                                 study_id |-> repo[r].study_id,
                                                 eligibility_email_sent |-> repo[r].eligibility_email_sent,
                                                 is_eligible_basic |-> attrs[r].is_eligible_basic,
                                                 participant_email |-> attrs[r].participant_email,
                                                 qids_score |-> attrs[r].qids_score]]]
               ELSE [proc EXCEPT !.pc = "done"]
    /\ UNCHANGED <<repo, attrs, flagField, faults, last, notAllocVars>>

AtRecord == proc.pc = "loop" /\ proc.i \in NotifyRecords

Wanted(r) ==
    /\ r.eligibility_email_sent # "1"
    /\ r.is_eligible_basic = "1"
    /\ r.participant_email # <<>>

\* a record already notified, not eligible or without address is passed over
PassOver ==
    /\ AtRecord
    /\ ~Wanted(Fetched(proc.i))
    /\ proc' = [proc EXCEPT !.i = @ + 1]
    /\ UNCHANGED <<repo, attrs, flagField, faults, last, notAllocVars>>

\* int(r.get('qids_score', 0)) raises on a text that is no number: the
\* exception ends the run
BadScore ==
    /\ AtRecord
    /\ Wanted(Fetched(proc.i))
    /\ ~ParseInt(Fetched(proc.i).qids_score).ok
    /\ proc' = [proc EXCEPT !.pc = "done"]
    /\ UNCHANGED <<repo, attrs, flagField, faults, last, notAllocVars>>

\* the record carries a study_id: it is used as it is
KeepStudyId ==
    /\ AtRecord
    /\ Wanted(Fetched(proc.i))
    /\ ParseInt(Fetched(proc.i).qids_score).ok
    /\ Fetched(proc.i).study_id # <<>>
    /\ proc' = [proc EXCEPT !.pc = "send", !.study_id = Fetched(proc.i).study_id]
    /\ UNCHANGED <<repo, attrs, flagField, faults, last, notAllocVars>>

\* the record carries no study_id: the next one of its category is written.
\* outcome is what the repository does: "ok" (status 200), "status" (another
\* status: the record is left out) or "raise" (the request raises: the run
\* ends).
AssignStudyId(outcome) ==
    /\ AtRecord
    /\ Wanted(Fetched(proc.i))
    /\ ParseInt(Fetched(proc.i).qids_score).ok
    /\ Fetched(proc.i).study_id = <<>>
    /\ LET is_hc == ParseInt(Fetched(proc.i).qids_score).val < 11
           study_id == IntToStr(get_next_id(repo, is_hc))
       IN  CASE outcome = "ok" ->
                  /\ repo' = [repo EXCEPT ![proc.i].study_id = study_id]
                  /\ proc' = [proc EXCEPT !.pc = "send", !.study_id = study_id,
                                          !.events = Append(@, RunEvent("id_written", proc.i))]
             [] outcome = "status" ->
                  /\ repo' = repo
                  /\ proc' = [proc EXCEPT !.i = @ + 1,
                                          !.events = Append(@, RunEvent("id_refused", proc.i))]
             [] OTHER ->
                  /\ repo' = repo
                  /\ proc' = [proc EXCEPT !.pc = "done"]
    /\ UNCHANGED <<attrs, flagField, faults, last, notAllocVars>>

\* send_eligibility_email: the dispatcher's answer for the record
SendEligibilityEmail(success) ==
    /\ proc.pc = "send"
    /\ proc' = after_send([proc EXCEPT !.events =
                              Append(@, RunEvent(IF success THEN "sent" ELSE "send_failed",
                                                 proc.i))],
                          proc.i, success)
    /\ UNCHANGED <<repo, attrs, flagField, faults, last, notAllocVars>>

\* mark_email_sent: a status other than 200 is logged only; an exception of
\* the request ends the run
MarkEmailSent(outcome) ==
    /\ proc.pc = "mark"
    /\ CASE outcome = "ok" ->
              /\ repo' = [repo EXCEPT ![proc.i].eligibility_email_sent = "1"]
              /\ proc' = [proc EXCEPT !.pc = "loop", !.i = @ + 1,
                                      !.processed = Append(@, proc.i),
                                      !.events = Append(@, RunEvent("marked", proc.i))]
         [] outcome = "status" ->
              /\ repo' = repo
              /\ proc' = [proc EXCEPT !.pc = "loop", !.i = @ + 1,
                                      !.processed = Append(@, proc.i)]
         [] OTHER ->
              /\ repo' = repo
              /\ proc' = [proc EXCEPT !.pc = "done"]
    /\ UNCHANGED <<attrs, flagField, faults, last, notAllocVars>>

\* the loop is over: processed is returned
ReturnProcessed ==
    /\ proc.pc = "loop"
    /\ proc.i \notin NotifyRecords
    /\ proc' = [proc EXCEPT !.pc = "done"]
    /\ UNCHANGED <<repo, attrs, flagField, faults, last, notAllocVars>>

RepoOutcomes == {"ok", "status", "raise"}

NextProcessor ==
    \/ \E ok \in BOOLEAN : FetchAll(ok)
    \/ PassOver
    \/ BadScore
    \/ KeepStudyId
    \/ \E outcome \in RepoOutcomes : AssignStudyId(outcome)
    \/ \E success \in BOOLEAN : SendEligibilityEmail(success)
    \/ \E outcome \in RepoOutcomes : MarkEmailSent(outcome)
    \/ ReturnProcessed

SpecProcessor == InitProcessor /\ [][NextProcessor]_vars

\* the positions of the log at which something was done to record r
EventsOf(what, r) ==
    { k \in DOMAIN proc.events : proc.events[k] = RunEvent(what, r) }

\* C27: a notification is dispatched for a record only after its study_id
\* was written with success or was already there; the record is marked as
\* notified only right after the dispatcher returned success for it; a record
\* whose notification failed is not marked.
C27_NotifyAfterIdMarkAfterSuccess ==
    proc.records # <<>> =>
        \A r \in NotifyRecords :
            /\ \A k \in EventsOf("sent", r) \cup EventsOf("send_failed", r) :
                   \/ Fetched(r).study_id # <<>>
                   \/ \E j \in EventsOf("id_written", r) : j < k
            /\ \A k \in EventsOf("marked", r) : k > 1 /\ (k - 1) \in EventsOf("sent", r)
            /\ repo[r].eligibility_email_sent # Fetched(r).eligibility_email_sent
                   => EventsOf("marked", r) # {}
            /\ EventsOf("send_failed", r) # {}
                   => repo[r].eligibility_email_sent # "1"
            /\ (proc.pc \in {"send", "mark"} /\ proc.i = r) => repo[r].study_id # <<>>

\* The first record got its study_id written, was notified and marked; the
\* notification of the second one failed and it is not marked.
C27_Witness ==
    /\ proc.pc = "done"
    /\ proc.events = <<RunEvent("id_written", 1), RunEvent("sent", 1),
                       RunEvent("marked", 1), RunEvent("send_failed", 2)>>
    /\ repo[1].eligibility_email_sent = "1"
    /\ repo[2].eligibility_email_sent = ""
    /\ proc.failed = <<2>>

-----------------------------------------------------------------------------
(* One CircuitBreaker called from several threads at once
   (src/common/email_sender.py, lines 111-151).  The class holds no lock, so
   a thread can be switched out wherever a method makes a call: at time.time()
   in record_failure, between the counters and the threshold test, and at
   time.time() in can_attempt, between the test of the state and its
   assignment.  cb is the breaker; call holds the breaker at the start, the
   position of each thread and the calls completed so far. *)

NumCallers == 2
MaxRaceCalls == 3

Callers == 1..NumCallers

\* breakers the dispatcher can hold when the concurrent calls start: a new
\* one, one with four failures counted, one opened by the fifth
StartBreakers ==
    { NewBreaker,
      [NewBreaker EXCEPT !.failure_count = failure_threshold - 1,
                         !.last_failure_time = FirstInstant],
      [NewBreaker EXCEPT !.failure_count = failure_threshold,
                         !.last_failure_time = FirstInstant,
                         !.state = "open"] }

\* a completed call: the method and the clock reading it used
Made(op, t) == [op |-> op, t |-> t]

InitRace ==
    /\ now = FirstInstant
    /\ cb \in StartBreakers
    /\ call = [start |-> cb, pc |-> [i \in Callers |-> "idle"], made |-> <<>>]
    /\ AllocParked /\ probe = <<>>
    /\ DispatchParked /\ LimiterParked

Room == Len(call.made) + Cardinality({ i \in Callers : call.pc[i] # "idle" }) < MaxRaceCalls

\* record_failure up to its call of time.time(): the two counters
BeginRecordFailure(i) ==
    /\ call.pc[i] = "idle" /\ Room
    /\ cb' = [cb EXCEPT !.failure_count = @ + 1, !.success_count = 0]
    /\ call' = [call EXCEPT !.pc[i] = "record_failure"]
    /\ UNCHANGED <<allocVars, probeVars, clockVars, dispatchVars, limiterVars>>

\* record_failure from the value of time.time() on: the time of the failure
\* and the threshold test, on the counter as it is now
EndRecordFailure(i) ==
    /\ call.pc[i] = "record_failure"
    /\ LET b1 == [cb EXCEPT !.last_failure_time = now]
       IN  cb' = IF b1.failure_count >= failure_threshold
                 THEN [b1 EXCEPT !.state = "open"]
                 ELSE b1
    /\ call' = [call EXCEPT !.pc[i] = "idle",
                            !.made = Append(@, Made("record_failure", now))]
    /\ UNCHANGED <<allocVars, probeVars, clockVars, dispatchVars, limiterVars>>

\* record_success calls nothing before its last assignment
RaceRecordSuccess(i) ==
    /\ call.pc[i] = "idle" /\ Room
    /\ cb' = record_success(cb)
    /\ call' = [call EXCEPT !.made = Append(@, Made("record_success", now))]
    /\ UNCHANGED <<allocVars, probeVars, clockVars, dispatchVars, limiterVars>>

\* can_attempt up to its call of time.time(): it returns at once unless the
\* breaker is open and carries a failure time
BeginCanAttempt(i) ==
    /\ call.pc[i] = "idle" /\ Room
    /\ call' = IF cb.state = "open" /\ cb.last_failure_time # NoTime
               THEN [call EXCEPT !.pc[i] = "can_attempt"]
               ELSE [call EXCEPT !.made = Append(@, Made("can_attempt", now))]
    /\ UNCHANGED <<allocVars, probeVars, clockVars, cb, dispatchVars, limiterVars>>

\* can_attempt from the value of time.time() on: the recovery test against
\* the failure time as it is now, and the assignment of the state
EndCanAttempt(i) ==
    /\ call.pc[i] = "can_attempt"
    /\ cb' = IF (now - cb.last_failure_time) > recovery_timeout
             THEN [cb EXCEPT !.state = "half_open"]
             ELSE cb
    /\ call' = [call EXCEPT !.pc[i] = "idle",
                            !.made = Append(@, Made("can_attempt", now))]
    /\ UNCHANGED <<allocVars, probeVars, clockVars, dispatchVars, limiterVars>>

NextRace ==
    \/ \E i \in Callers : BeginRecordFailure(i)
    \/ \E i \in Callers : EndRecordFailure(i)
    \/ \E i \in Callers : RaceRecordSuccess(i)
    \/ \E i \in Callers : BeginCanAttempt(i)
    \/ \E i \in Callers : EndCanAttempt(i)
    \/ Tick

SpecRace == InitRace /\ [][NextRace]_vars

\* the breaker after one call made alone
AfterCall(b, c) ==
    CASE c.op = "record_failure" -> record_failure(b, c.t)
      [] c.op = "record_success" -> record_success(b)
      [] OTHER -> can_attempt(b, c.t).breaker

RECURSIVE SequentialOutcomes(_, _)
\* the breakers that the calls made[k], k in S, produce from b when they are
\* made one after another, in every order
SequentialOutcomes(b, S) ==
    IF S = {} THEN {b}
    ELSE UNION { SequentialOutcomes(AfterCall(b, call.made[k]), S \ {k}) : k \in S }

\* C28 (as claimed): when no call is under way, the breaker is what some
\* sequential order of the calls made so far produces from the breaker at
\* the start.
C28_BreakerCallsSerializable ==
    (\A i \in Callers : call.pc[i] = "idle")
        => cb \in SequentialOutcomes(call.start, DOMAIN call.made)

-----------------------------------------------------------------------------
(* The dispatcher in a process that goes on sending notifications: the same
   steps as above with no bound on the number of notifications.  A call of
   _send_with_providers that has begun runs to its end, time passes, and a new
   notification follows each one that has ended; what a provider answers is
   left open. *)

\* a call of _send_with_providers begins (lines 690-706); the notifications
\* are not counted and the record of earlier ones is not kept
NextNotification ==
    /\ disp.pc \in {"idle", "done"}
    /\ \E to_email \in Recipients :
         disp' = [IdleDisp EXCEPT !.pc = "check", !.n = disp.n,
                                  !.order = provider_order(to_email), !.pi = 1]
    /\ hist' = [i \in Instances |-> NoHist]
    /\ UNCHANGED <<breakers, health>>
    /\ UNCHANGED <<allocVars, probeVars, clockVars, breakerVars, limiterVars>>

\* success_count grows with every success of a closed breaker: the successes
\* are followed up to MaxLiveSuccesses in a row
MaxLiveSuccesses == 2

SendSucceedsLive ==
    /\ disp.pc = "send"
    /\ breakers[Providers[disp.order[disp.pi]]].success_count < MaxLiveSuccesses
    /\ SendSucceeds

NextDispatchLive ==
    \/ NextNotification
    \/ SkipProvider
    \/ EnterProvider
    \/ SendSucceedsLive
    \/ SendFailsTransient
    \/ SendFailsPermanent
    \/ Backoff
    \/ Tick

SpecDispatchLive ==
    /\ InitDispatch
    /\ [][NextDispatchLive]_vars
    /\ WF_vars(NextNotification)
    /\ WF_vars(SkipProvider)
    /\ WF_vars(EnterProvider)
    /\ WF_vars(SendSucceedsLive \/ SendFailsTransient \/ SendFailsPermanent)
    /\ WF_vars(Backoff)
    /\ WF_vars(Tick)

\* provider i would be skipped now although its last recorded failure is
\* longer ago than the longest cooldown of the code
Shunned(i) ==
    /\ ~Consult(i, now).go
    /\ breakers[Providers[i]].last_failure_time # NoTime
    /\ now - breakers[Providers[i]].last_failure_time > SendGridCooldown

\* the provider consulted last was i, and it was skipped
SkippedLast(i) ==
    /\ disp.consulted # <<>>
    /\ LET c == disp.consulted[Len(disp.consulted)]
       IN  c.provider = Providers[i] /\ ~(c.can /\ c.healthy)

\* C29 (as claimed): no provider goes on being skipped by notification after
\* notification once its last failure is long past: a skipped provider is
\* attempted again.
C29_NoProviderSkippedForever ==
    \A i \in Instances : ~(<>[]Shunned(i) /\ []<>SkippedLast(i))

-----------------------------------------------------------------------------
(* EligibleIDAssigner.get_statistics (src/eligible_id_assigner.py): the two
   "Next available IDs" lines of the report, on the repository contents of
   InitNextId *)

\* the highest identifier held in the group's range, or the range's minimum
\* less one (max_hc_id, max_mdd_id)
max_id_held(records, group_type) ==
    SetMax({ID_RANGES[group_type].min - 1} \cup ExistingIds(records, group_type))

\* the number printed for the group
next_available(records, group_type) ==
    LET max_id == max_id_held(records, group_type)
    IN  IF max_id >= ID_RANGES[group_type].min
        THEN max_id + 1
        ELSE ID_RANGES[group_type].min

\* one call of get_statistics that reaches the repository
CallGetStatistics ==
    /\ probe = NoProbe
    /\ probe' = [called |-> TRUE, group_type |-> "",
                 next |-> [g \in Groups |-> next_available(repo, g)]]
    /\ UNCHANGED <<allocVars, clockVars, breakerVars, dispatchVars, limiterVars>>

NextStatistics == CallGetStatistics

SpecStatistics == InitNextId /\ [][NextStatistics]_vars

\* C30 (as claimed): the next available identifier get_statistics reports for
\* a group lies in the group's range and is the value get_next_dynamic_id
\* returns on the same repository content.
C30_ReportedNextIsNextId ==
    probe.called =>
        \A g \in Groups :
            /\ ID_RANGES[g].min <= probe.next[g]
            /\ probe.next[g] <= ID_RANGES[g].max
            /\ ~get_next_dynamic_id(repo, g).raised
            /\ probe.next[g] = get_next_dynamic_id(repo, g).next_id

====
